-------------------------------- MODULE Alerts --------------------------------
(***************************************************************************)
(* Alerts (hestia/alerts): process_event counts the events of the last     *)
(* minutes, asks every rule, and sends what fires to the channels, one     *)
(* after the other.  One thread calls the manager, and is held by each     *)
(* channel for as long as its send takes: some ten seconds for those of    *)
(* HTTP, without a limit for email.                                        *)
(***************************************************************************)
EXTENDS Integers, Sequences, SequencesExt

CONSTANTS
    Rules,          \* AlertRule objects
    NameOf,
    Condition,      \* of a rule: for the numbers of blocks and of other events
                    \* in the window (the context is computed from them),
                    \* "true", "false" (always, if not enabled) or "raises"
    Cooldown,
    Level,          \* of a rule: 0 for critical to 4 for info
    ChannelsOf,     \* of a rule: names of channels, in order
    ChannelNames,
    MinLevel,       \* of a channel
    Catching,       \* channels whose send lets no exception out: email
    Window,         \* _window_seconds: 300 in the code
    MaxTime,        \* bound: the time
    MaxEvents       \* bound: events of each kind

Times == 0 .. MaxTime
Never == -1

ASSUME AlertsAssumption ==
    /\ Condition \in [Rules -> [(0 .. MaxEvents) \X (0 .. MaxEvents)
                                -> {"true", "false", "raises"}]]
    /\ Cooldown \in [Rules -> Nat] /\ Level \in [Rules -> 0 .. 4]
    /\ ChannelsOf \in [Rules -> Seq(ChannelNames)]
    /\ MinLevel \in [ChannelNames -> 0 .. 4]
    /\ Window \in Nat \ {0} /\ MaxTime \in Nat /\ MaxEvents \in Nat

(* An event is a block if its decision says so.                            *)
Kinds == {"block", "other"}

VARIABLES
    now,
    rules,      \* the rules in force, in the order of the dictionary
    lastFired,  \* _last_fired of each rule object, in force or not
    window,     \* _event_window: how many events of each kind and time are in it
    channels,   \* the names of the channels that are configured
    firing,     \* the rules that fired in the call under way; {} when none is
    sends,      \* what that call has left to send, see Sends
    events,     \* history: how many events of each kind there were at each time
    reported,   \* history: when process_event last returned an alert of a rule
    received,   \* history: the timestamp of the last one each channel received
    raised      \* history: when process_event last raised

manager == <<rules, channels>>
engine == <<lastFired, window>>
call == <<firing, sends>>
history == <<events, reported, received, raised>>
vars == <<now, manager, engine, call, history>>

NoEvents == [k \in Kinds |-> [t \in Times |-> 0]]

Init ==
    /\ now = 0
    /\ rules = <<>> /\ channels = {}
    /\ lastFired = [r \in Rules |-> Never]
    /\ window = NoEvents /\ events = NoEvents
    /\ firing = {} /\ sends = {}
    /\ reported = [r \in Rules |-> Never]
    /\ received = [r \in Rules |-> [c \in ChannelNames |-> Never]]
    /\ raised = Never

------------------------------------------------------------------------------
SumOf(f) ==
    LET upTo[t \in Times] == f[t] + (IF t = 0 THEN 0 ELSE upTo[t - 1])
    IN  upTo[MaxTime]

(* The time is within so many seconds before now.                          *)
Within(time, seconds) == time # Never /\ now - time < seconds

Pruned(w) == [t \in Times |-> IF t >= now - Window THEN w[t] ELSE 0]

(* f with one event more, if it is of the kind.                            *)
Counting(f, kind) == [k \in Kinds |-> [t \in Times |->
    IF k = kind /\ t = now THEN f[k][t] + 1 ELSE f[k][t]]]

(* record_event; an event that is empty is of no kind and not recorded.    *)
Recorded(kind) ==
    IF kind \notin Kinds THEN window
    ELSE [k \in Kinds |-> Pruned(Counting(window, kind)[k])]

(* _build_context                                                          *)
Context(w) == <<SumOf(Pruned(w["block"])), SumOf(Pruned(w["other"]))>>

Says(r, context) == Condition[r][context]

(* Fault: the time is noted also when the rule is still cooling down.      *)
StampedSliding(asked, context) ==
    [r \in Rules |-> IF r \in asked /\ Says(r, context) = "true"
                     THEN now ELSE lastFired[r]]

(* Fault: a rule does not cool down.                                       *)
FiresAlways(r, context) == Says(r, context) = "true"

(* AlertRule.evaluate answers True.                                        *)
Fires(r, context) == Says(r, context) = "true" /\ ~Within(lastFired[r], Cooldown[r])

(* It notes the time.                                                      *)
Stamped(asked, context) ==
    [r \in Rules |-> IF r \in asked /\ Fires(r, context) THEN now ELSE lastFired[r]]

------------------------------------------------------------------------------
(* Sending.                                                                *)

(* The sends of a call, by their places: each rule that fires to each of   *)
(* its channels.                                                           *)
Sends(context) ==
    UNION {{<<i, j>> : j \in DOMAIN ChannelsOf[rules[i]]} :
           i \in {k \in DOMAIN rules : Fires(rules[k], context)}}

RuleOf(send) == rules[send[1]]
ChannelOf(send) == ChannelsOf[RuleOf(send)][send[2]]

(* The next send: in the order of the rules, then of their channels.       *)
First(send) ==
    \A s \in sends : send[1] < s[1] \/ (send[1] = s[1] /\ send[2] <= s[2])

(* The channel is configured, and should_send; otherwise the result is     *)
(* False.                                                                  *)
Attempted(send) ==
    ChannelOf(send) \in channels /\ Level[RuleOf(send)] <= MinLevel[ChannelOf(send)]

(* Only the email channel catches more than URLError.                      *)
MayRaise(send) == Attempted(send) /\ ChannelOf(send) \notin Catching

(* The alert, with the time at which its rule fired, gets there.           *)
Receive(send) ==
    received' = [received EXCEPT
        ![RuleOf(send)][ChannelOf(send)] = lastFired[RuleOf(send)]]

------------------------------------------------------------------------------
(* A condition raises: rules before it have noted the time, those after it *)
(* are not asked, nothing is sent.                                         *)
EvaluationRaises(context) ==
    \E i \in DOMAIN rules :
        /\ Says(rules[i], context) = "raises"
        /\ \A j \in 1 .. i - 1 : Says(rules[j], context) # "raises"
        /\ lastFired' = Stamped({rules[j] : j \in 1 .. i - 1}, context)
        /\ raised' = now
        /\ UNCHANGED call

(* Every rule is asked; those that fire are sent by the steps that follow. *)
Evaluate(context) ==
    /\ \A i \in DOMAIN rules : Says(rules[i], context) # "raises"
    /\ lastFired' = Stamped({rules[i] : i \in DOMAIN rules}, context)
    /\ firing' = {r \in {rules[i] : i \in DOMAIN rules} : Fires(r, context)}
    /\ sends' = Sends(context)
    /\ UNCHANGED raised

(* process_event, with an event of a kind or an empty one.                 *)
ProcessEvent(kind) ==
    /\ firing = {}
    /\ kind \in Kinds => SumOf(events[kind]) < MaxEvents
    /\ window' = Recorded(kind) /\ events' = Counting(events, kind)
    /\ EvaluationRaises(Context(window')) \/ Evaluate(Context(window'))
    /\ UNCHANGED <<now, manager, reported, received>>

(* A send that is not attempted, or returns: the alert was received or not.*)
Send ==
    \E send \in sends :
        /\ First(send) /\ sends' = sends \ {send}
        /\ UNCHANGED received \/ (Attempted(send) /\ Receive(send))
        /\ UNCHANGED <<now, manager, engine, firing, events, reported, raised>>

(* The first send that raises ends the call; the alert may have been       *)
(* received all the same.                                                  *)
SendRaises ==
    \E send \in sends :
        /\ First(send) /\ MayRaise(send)
        /\ UNCHANGED received \/ Receive(send)
        /\ firing' = {} /\ sends' = {} /\ raised' = now
        /\ UNCHANGED <<now, manager, engine, events, reported>>

(* process_event returns the alerts.                                       *)
Report ==
    /\ firing # {} /\ sends = {}
    /\ reported' = [r \in Rules |-> IF r \in firing THEN now ELSE reported[r]]
    /\ firing' = {}
    /\ UNCHANGED <<now, manager, engine, sends, events, received, raised>>

Place(name) == {i \in DOMAIN rules : NameOf[rules[i]] = name}

(* Fault: the old rule of the name stays.                                  *)
AddRuleTwice(r) ==
    /\ firing = {}
    /\ rules' = Append(rules, r)
    /\ UNCHANGED <<now, engine, call, channels, history>>

(* A rule of the same name is replaced, in its place.                      *)
AddRule(r) ==
    /\ firing = {}
    /\ rules' = IF Place(NameOf[r]) = {} THEN Append(rules, r)
                ELSE [i \in DOMAIN rules |-> IF i \in Place(NameOf[r]) THEN r ELSE rules[i]]
    /\ UNCHANGED <<now, engine, call, channels, history>>

RemoveRule(name) ==
    /\ firing = {}
    /\ \E i \in Place(name) : rules' = RemoveAt(rules, i)
    /\ UNCHANGED <<now, engine, call, channels, history>>

AddChannel(c) ==
    /\ firing = {}
    /\ channels' = channels \cup {c}
    /\ UNCHANGED <<now, engine, call, rules, history>>

RemoveChannel(c) ==
    /\ firing = {}
    /\ channels' = channels \ {c}
    /\ UNCHANGED <<now, engine, call, rules, history>>

(* Time passes, also while a channel holds the call.                       *)
Tick ==
    /\ now < MaxTime /\ now' = now + 1
    /\ UNCHANGED <<manager, engine, call, history>>

Next ==
    \/ \E kind \in Kinds \cup {"empty"} : ProcessEvent(kind)
    \/ Send \/ SendRaises \/ Report
    \/ \E r \in Rules : AddRule(r) \/ RemoveRule(NameOf[r])
    \/ \E c \in ChannelNames : AddChannel(c) \/ RemoveChannel(c)
    \/ Tick

Spec == Init /\ [][Next]_vars

------------------------------------------------------------------------------
(* The shape of the state; no two rules in force have one name.            *)
TypeOK ==
    /\ now \in Times
    /\ rules \in Seq(Rules)
    /\ \A i, j \in DOMAIN rules : NameOf[rules[i]] = NameOf[rules[j]] => i = j
    /\ lastFired \in [Rules -> Times \cup {Never}]
    /\ window \in [Kinds -> [Times -> 0 .. MaxEvents]]
    /\ events \in [Kinds -> [Times -> 0 .. MaxEvents]]
    /\ channels \subseteq ChannelNames
    /\ firing \subseteq Rules
    /\ \A send \in sends : send[1] \in DOMAIN rules /\ RuleOf(send) \in firing
    /\ reported \in [Rules -> Times \cup {Never}]
    /\ received \in [Rules -> [ChannelNames -> Times \cup {Never}]]
    /\ raised \in Times \cup {Never}

(* The alerts of one rule that a channel receives fired a cooldown apart,  *)
(* also when the answer to the first was lost or the call raised, and when *)
(* the rule was removed and added again in between (AlertRule.evaluate).   *)
(* It says when they fired: a slow channel may make one arrive late and    *)
(* the next one soon after it.                                             *)
OneAlertPerCooldown ==
    [][\A r \in Rules, c \in ChannelNames :
          received'[r][c] # received[r][c] /\ received[r][c] # Never
          => received'[r][c] - received[r][c] >= Cooldown[r]]_vars

(* The events that there really were in the window.                        *)
RecentEvents ==
    LET recent(k) == SumOf([t \in Times |-> IF t >= now - Window THEN events'[k][t] ELSE 0])
    IN  <<recent("block"), recent("other")>>

(* An alert is due at every event at which its condition holds, counted    *)
(* over the events there really were.  It fires, or is withheld for no     *)
(* longer than the cooldown after it was last reported or, for the time is *)
(* noted before anything is sent, after a call that raised.                *)
SilenceBounded ==
    [][events' # events \/ lastFired' # lastFired =>
          \A i \in DOMAIN rules :
              LET r == rules[i]
              IN  Says(r, RecentEvents) = "true" /\ raised' # now
                  => \/ r \in firing'
                     \/ Within(reported[r], Cooldown[r])
                     \/ Within(raised, Cooldown[r])]_vars

==============================================================================
