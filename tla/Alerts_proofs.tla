----------------------------- MODULE Alerts_proofs ----------------------------
(* How often alerts are sent and how long they are withheld, for any rules,  *)
(* channels and clocks.                                                      *)
EXTENDS Alerts, TLAPS, SequenceTheorems, WellFoundedInduction

Stamps == Times \cup {Never}
Counts == [Kinds -> [Times -> Int]]

(* What the arguments need of the types.                                   *)
Clocks ==
    /\ now \in Times
    /\ lastFired \in [Rules -> Stamps] /\ reported \in [Rules -> Stamps]
    /\ \A r \in Rules : lastFired[r] <= now /\ reported[r] <= now
    /\ raised \in Stamps /\ raised <= now
    /\ received \in [Rules -> [ChannelNames -> Stamps]]
    /\ events \in Counts /\ window \in Counts

(* What is left to send are alerts of the rules that fired.                *)
UnderWay ==
    /\ firing \subseteq Rules
    /\ firing = {} => sends = {}
    /\ \A s \in sends : s[1] \in DOMAIN rules /\ rules[s[1]] \in firing

(* What a channel received of a rule carries the time at which the rule    *)
(* fired or, if it is about to be sent another, one a cooldown earlier.    *)
ReceivedApart ==
    \A r \in Rules, c \in ChannelNames :
        /\ received[r][c] <= lastFired[r]
        /\ r \in firing => \/ received[r][c] \in {Never, lastFired[r]}
                           \/ lastFired[r] - received[r][c] >= Cooldown[r]

(* Since a rule fired last, it was reported or a call raised, or the call  *)
(* is under way.                                                           *)
FiredIsKnown ==
    \A r \in Rules :
        lastFired[r] <= reported[r] \/ lastFired[r] <= raised \/ r \in firing

(* The window has the events that there were.                              *)
WindowTrue ==
    \A k \in Kinds, t \in Times : t >= now - Window => window[k][t] = events[k][t]

IInv == /\ rules \in Seq(Rules) /\ Clocks /\ UnderWay
        /\ ReceivedApart /\ FiredIsKnown /\ WindowTrue

USE AlertsAssumption

------------------------------------------------------------------------------
(* The least of some numbers.                                              *)
Less == OpToRel(<, Nat)

LEMMA LeastExists ==
    ASSUME NEW T, T \subseteq Nat, T # {}
    PROVE  \E x \in T : \A y \in T : x <= y
<1>1. IsWellFoundedOn(Less, Nat)
  BY NatLessThanWellFounded DEF Less
<1>2. PICK x \in T : \A y \in T : ~ (<<y, x>> \in Less)
  BY <1>1, WFMin
<1>3. \A y \in T : ~ (<<y, x>> \in {ss \in Nat \X Nat : ss[1] < ss[2]})
  BY <1>2 DEF OpToRel, Less
<1>4. ASSUME NEW y \in T PROVE x <= y
  <2>1. <<y, x>> \in Nat \X Nat /\ <<y, x>>[1] = y /\ <<y, x>>[2] = x
    OBVIOUS
  <2>2. ~ (y < x)
    BY <1>3, <2>1
  <2> QED BY <2>1, <2>2
<1> QED BY <1>4

(* g has the sums of f up to each time, as far as m.                       *)
Sums(f, m, g) == g = [t \in 0 .. m |-> f[t] + (IF t = 0 THEN 0 ELSE g[t - 1])]

LEMMA SumComputed ==
    ASSUME NEW f
    PROVE  \E g : Sums(f, MaxTime, g) /\ SumOf(f) = g[MaxTime]
<1> DEFINE Bad == {m \in Nat : ~ \E g : Sums(f, m, g)}
<1>1. ASSUME Bad # {} PROVE FALSE
  <2>1. PICK m \in Bad : \A k \in Bad : m <= k
    <3>1. Bad \subseteq Nat
      OBVIOUS
    <3> HIDE DEF Bad
    <3> QED BY <1>1, <3>1, LeastExists
  <2>2. CASE m = 0
    <3>1. Sums(f, 0, [t \in 0 .. 0 |-> f[t] + 0])
      BY DEF Sums
    <3> QED BY <2>1, <2>2, <3>1
  <2>3. CASE m # 0
    <3>1. m \in Nat /\ m - 1 \in Nat /\ m - 1 \notin Bad
      <4>1. m \in Nat
        BY <2>1
      <4>2. m - 1 \in Nat /\ ~ (m <= m - 1)
        BY <2>3, <4>1
      <4> HIDE DEF Bad
      <4> QED BY <2>1, <4>1, <4>2
    <3>2. PICK g : Sums(f, m - 1, g)
      BY <3>1
    <3> DEFINE h == [t \in 0 .. m |-> IF t = m THEN f[m] + g[m - 1] ELSE g[t]]
    <3>3. ASSUME NEW t \in 0 .. m
          PROVE  h[t] = f[t] + (IF t = 0 THEN 0 ELSE h[t - 1])
      <4>1. CASE t = 0
        BY <2>3, <3>1, <3>2, <4>1 DEF Sums
      <4>2. CASE t = m
        <5>1. h[m - 1] = g[m - 1] /\ h[m] = f[m] + g[m - 1]
          BY <3>1
        <5> QED BY <2>3, <4>2, <5>1
      <4>3. CASE t # 0 /\ t # m
        <5>1. t \in 0 .. m - 1 /\ t - 1 \in 0 .. m /\ t - 1 # m
          BY <3>1, <4>3
        <5>2. h[t] = g[t] /\ h[t - 1] = g[t - 1]
          BY <4>3, <5>1
        <5>3. g[t] = f[t] + g[t - 1]
          BY <3>2, <4>3, <5>1 DEF Sums
        <5> QED BY <4>3, <5>2, <5>3
      <4> QED BY <4>1, <4>2, <4>3
    <3>4. Sums(f, m, h)
      <4>1. h = [t \in 0 .. m |-> h[t]]
        OBVIOUS
      <4> HIDE DEF h
      <4> QED BY <3>3, <4>1, Zenon DEF Sums
    <3> QED BY <2>1, <3>4
  <2> QED BY <2>2, <2>3
<1>2. \E g : Sums(f, MaxTime, g)
  BY <1>1
<1>3. SumOf(f) = (CHOOSE g : Sums(f, MaxTime, g))[MaxTime]
  BY DEF SumOf, Sums, Times
<1>4. Sums(f, MaxTime, CHOOSE g : Sums(f, MaxTime, g))
  BY <1>2
<1> QED BY <1>3, <1>4

(* A sum of numbers is no less than any of them.                           *)
LEMMA SumBounds ==
    ASSUME NEW f \in [Times -> Nat]
    PROVE  SumOf(f) \in Nat /\ \A t \in Times : f[t] <= SumOf(f)
<1>1. PICK g : Sums(f, MaxTime, g) /\ SumOf(f) = g[MaxTime]
  BY SumComputed
<1> DEFINE Bound(m) == g[m] \in Nat /\ \A t \in 0 .. m : f[t] <= g[m]
           Bad == {m \in Times : ~ Bound(m)}
<1>2. ASSUME Bad # {} PROVE FALSE
  <2>1. PICK m \in Bad : \A k \in Bad : m <= k
    <3>1. Bad \subseteq Nat
      BY DEF Times
    <3> HIDE DEF Bad
    <3> QED BY <1>2, <3>1, LeastExists
  <2>2. m \in Times /\ m \in Nat /\ f[m] \in Nat
    BY <2>1 DEF Times
  <2>3. g[m] = f[m] + (IF m = 0 THEN 0 ELSE g[m - 1])
    BY <1>1, <2>2 DEF Sums, Times
  <2>4. CASE m = 0
    <3>1. g[0] = f[0] /\ f[0] \in Nat
      BY <2>2, <2>3, <2>4
    <3> QED BY <2>1, <2>4, <3>1
  <2>5. CASE m # 0
    <3>1. m - 1 \in Times /\ m - 1 \notin Bad
      BY <2>1, <2>2, <2>5 DEF Times
    <3>2. Bound(m - 1) /\ g[m] = f[m] + g[m - 1]
      BY <2>3, <2>5, <3>1
    <3>3. ASSUME NEW t \in 0 .. m PROVE f[t] <= g[m]
      <4>1. t \in Times /\ f[t] \in Nat
        BY <2>2 DEF Times
      <4>2. CASE t = m
        BY <2>2, <3>2, <4>2
      <4>3. CASE t # m
        <5>1. t \in 0 .. m - 1
          BY <2>2, <4>3
        <5> QED BY <2>2, <3>2, <4>1, <5>1
      <4> QED BY <4>2, <4>3
    <3>4. Bound(m)
      BY <2>2, <3>2, <3>3
    <3> QED BY <2>1, <3>4
  <2> QED BY <2>4, <2>5
<1>3. Bound(MaxTime)
  <2>1. MaxTime \in Times
    BY DEF Times
  <2> HIDE DEF Bound
  <2> QED BY <1>2, <2>1
<1> QED BY <1>1, <1>3 DEF Times

------------------------------------------------------------------------------
LEMMA InitInv == Init => IInv
<1> SUFFICES ASSUME Init PROVE IInv
  OBVIOUS
<1>1. Clocks
  BY DEF Init, Clocks, Counts, NoEvents, Times, Stamps, Never
<1>2. rules \in Seq(Rules) /\ UnderWay /\ ReceivedApart /\ FiredIsKnown /\ WindowTrue
  BY DEF Init, UnderWay, ReceivedApart, FiredIsKnown, WindowTrue, Never
<1> QED BY <1>1, <1>2 DEF IInv

(* The times that are noted are numbers.                                   *)
LEMMA StampTypes ==
    ASSUME IInv
    PROVE  /\ now \in Times /\ now \in Stamps /\ now \in Int /\ now >= 0
           /\ raised \in Stamps /\ raised \in Int /\ raised <= now
           /\ \A r \in Rules :
                 /\ lastFired[r] \in Stamps /\ lastFired[r] \in Int /\ lastFired[r] <= now
                 /\ reported[r] \in Stamps /\ reported[r] \in Int /\ reported[r] <= now
                 /\ Cooldown[r] \in Nat
                 /\ \A c \in ChannelNames :
                       received[r][c] \in Stamps /\ received[r][c] \in Int
<1>1. Stamps \subseteq Int /\ Times \subseteq Stamps /\ \A t \in Times : t >= 0
  BY DEF Stamps, Times, Never
<1>2. ASSUME NEW r \in Rules, NEW c \in ChannelNames PROVE received[r][c] \in Stamps
  <2>1. received[r] \in [ChannelNames -> Stamps]
    BY DEF IInv, Clocks
  <2> QED BY <2>1
<1> QED BY <1>1, <1>2 DEF IInv, Clocks

(* What a call does to the times of the rules.                             *)
LEMMA StampedIs ==
    ASSUME IInv, NEW asked, NEW context
    PROVE  /\ Stamped(asked, context) \in [Rules -> Stamps]
           /\ \A r \in Rules :
                 /\ Stamped(asked, context)[r] = IF r \in asked /\ Fires(r, context)
                                                 THEN now ELSE lastFired[r]
                 /\ lastFired[r] <= Stamped(asked, context)[r]
                 /\ Stamped(asked, context)[r] <= now
<1>1. Stamped(asked, context) \in [Rules -> Stamps]
  BY StampTypes DEF Stamped
<1>2. \A r \in Rules : Stamped(asked, context)[r] = IF r \in asked /\ Fires(r, context)
                                                    THEN now ELSE lastFired[r]
  BY DEF Stamped
<1>3. ASSUME NEW r \in Rules
      PROVE  /\ lastFired[r] <= Stamped(asked, context)[r]
             /\ Stamped(asked, context)[r] <= now
  <2>1. Stamped(asked, context)[r] \in {now, lastFired[r]}
    BY <1>2
  <2> QED BY <2>1, StampTypes
<1> QED BY <1>1, <1>2, <1>3

(* A rule that fires did not for its cooldown, and so nobody was sent it.  *)
LEMMA FiringIsApart ==
    ASSUME IInv, NEW r \in Rules, NEW c \in ChannelNames, NEW context, Fires(r, context)
    PROVE  received[r][c] = Never \/ now - received[r][c] >= Cooldown[r]
<1>1. received[r][c] <= lastFired[r]
  BY DEF IInv, ReceivedApart
<1>2. lastFired[r] = Never \/ now - lastFired[r] >= Cooldown[r]
  BY StampTypes DEF Fires, Within
<1>3. lastFired[r] = Never => received[r][c] = Never
  BY <1>1, StampTypes DEF Stamps, Times, Never
<1>4. now - lastFired[r] >= Cooldown[r] => now - received[r][c] >= Cooldown[r]
  BY <1>1, StampTypes
<1> QED BY <1>2, <1>3, <1>4

(* What an event adds.                                                     *)
LEMMA CountingIs ==
    ASSUME NEW f \in Counts, NEW kind
    PROVE  /\ Counting(f, kind) \in Counts
           /\ \A k \in Kinds, t \in Times :
                 Counting(f, kind)[k][t] = IF k = kind /\ t = now THEN f[k][t] + 1 ELSE f[k][t]
<1>1. \A k \in Kinds, t \in Times :
         Counting(f, kind)[k][t] = IF k = kind /\ t = now THEN f[k][t] + 1 ELSE f[k][t]
  BY DEF Counting
<1>2. \A k \in Kinds, t \in Times : f[k][t] \in Int
  BY DEF Counts
<1> QED BY <1>1, <1>2 DEF Counts, Counting

(* The window loses only what is too old.                                  *)
LEMMA RecordedIs ==
    ASSUME IInv, NEW kind
    PROVE  /\ Recorded(kind) \in Counts
           /\ \A k \in Kinds, t \in Times :
                 /\ Recorded(kind)[k][t] \in {0, Counting(window, kind)[k][t]}
                 /\ t >= now - Window
                    => Recorded(kind)[k][t] = Counting(window, kind)[k][t]
<1>1. /\ Counting(window, kind) \in Counts
      /\ \A k \in Kinds, t \in Times :
            Counting(window, kind)[k][t] = IF k = kind /\ t = now THEN window[k][t] + 1
                                           ELSE window[k][t]
  BY CountingIs DEF IInv, Clocks
<1>2. CASE kind \in Kinds
  <2>1. Recorded(kind) = [k \in Kinds |-> Pruned(Counting(window, kind)[k])]
    BY <1>2 DEF Recorded
  <2>2. \A k \in Kinds, t \in Times :
           Recorded(kind)[k][t] = IF t >= now - Window THEN Counting(window, kind)[k][t] ELSE 0
    BY <2>1 DEF Pruned
  <2>3. \A k \in Kinds, t \in Times : Counting(window, kind)[k][t] \in Int
    BY <1>1 DEF Counts
  <2>4. Recorded(kind) \in Counts
    BY <2>1, <2>3 DEF Pruned, Counts
  <2> QED BY <2>2, <2>4
<1>3. CASE kind \notin Kinds
  <2>1. Recorded(kind) = window /\ window \in Counts
    BY <1>3 DEF Recorded, IInv, Clocks
  <2> QED BY <1>1, <1>3, <2>1
<1> QED BY <1>2, <1>3

LEMMA RecordedInv ==
    ASSUME IInv, NEW kind, ProcessEvent(kind)
    PROVE  WindowTrue' /\ events' \in Counts /\ window' \in Counts
<1>1. window' = Recorded(kind) /\ events' = Counting(events, kind) /\ now' = now
  BY DEF ProcessEvent
<1>2. /\ window \in Counts /\ events \in Counts /\ now \in Times
      /\ \A k \in Kinds, t \in Times : t >= now - Window => window[k][t] = events[k][t]
  BY DEF IInv, Clocks, WindowTrue
<1>3. \A k \in Kinds, t \in Times :
         t >= now - Window => Counting(window, kind)[k][t] = Counting(events, kind)[k][t]
  BY <1>2, CountingIs
<1>4. WindowTrue'
  BY <1>1, <1>3, RecordedIs DEF WindowTrue
<1> QED BY <1>1, <1>2, <1>4, CountingIs, RecordedIs

(* A call decides by the events that there really were.                    *)
LEMMA ContextIsTrue ==
    ASSUME IInv, NEW kind, ProcessEvent(kind)
    PROVE  RecentEvents = Context(window')
<1>1. \A k \in Kinds, t \in Times : t >= now - Window => window'[k][t] = events'[k][t]
  BY RecordedInv DEF ProcessEvent, WindowTrue
<1>2. \A k \in Kinds : Pruned(window'[k])
                       = [t \in Times |-> IF t >= now - Window THEN events'[k][t] ELSE 0]
  BY <1>1 DEF Pruned
<1>3. "block" \in Kinds /\ "other" \in Kinds
  BY DEF Kinds
<1> QED BY <1>2, <1>3, Zenon DEF RecentEvents, Context

------------------------------------------------------------------------------
(* The steps of a call.                                                    *)
LEMMA EvaluationRaisesInv ==
    ASSUME IInv, NEW kind, ProcessEvent(kind), NEW context, EvaluationRaises(context)
    PROVE  IInv'
<1>1. /\ firing = {} /\ firing' = {} /\ sends' = sends
      /\ UNCHANGED <<now, rules, reported, received>> /\ raised' = now
  BY DEF ProcessEvent, EvaluationRaises, call, manager
<1>2. PICK asked : lastFired' = Stamped(asked, context)
  BY DEF EvaluationRaises
<1>3. /\ lastFired' \in [Rules -> Stamps]
      /\ \A r \in Rules : lastFired[r] <= lastFired'[r] /\ lastFired'[r] <= now
                          /\ lastFired'[r] \in Int
  BY <1>2, StampedIs, StampTypes
<1>4. Clocks'
  BY <1>1, <1>3, StampTypes, RecordedInv DEF IInv, Clocks
<1>5. UnderWay'
  BY <1>1 DEF IInv, UnderWay
<1>6. ReceivedApart'
  <2>1. ASSUME NEW r \in Rules, NEW c \in ChannelNames PROVE received[r][c] <= lastFired'[r]
    <3>1. received[r][c] <= lastFired[r]
      BY DEF IInv, ReceivedApart
    <3> QED BY <1>3, <3>1, StampTypes
  <2> QED BY <1>1, <2>1 DEF ReceivedApart
<1>7. FiredIsKnown'
  BY <1>1, <1>3 DEF FiredIsKnown
<1> QED BY <1>1, <1>4, <1>5, <1>6, <1>7, RecordedInv DEF IInv

LEMMA EvaluateInv ==
    ASSUME IInv, NEW kind, ProcessEvent(kind), NEW context, Evaluate(context)
    PROVE  IInv'
<1> DEFINE asked == {rules[i] : i \in DOMAIN rules}
<1>1. /\ firing = {} /\ UNCHANGED <<now, rules, reported, received, raised>>
      /\ lastFired' = Stamped(asked, context)
      /\ firing' = {r \in asked : Fires(r, context)}
      /\ sends' = Sends(context)
  BY DEF ProcessEvent, Evaluate, manager
<1>2. asked \subseteq Rules
  BY DEF IInv
<1>3. ASSUME NEW s \in sends' PROVE s[1] \in DOMAIN rules /\ rules[s[1]] \in firing'
  <2>1. PICK i \in DOMAIN rules :
           /\ Fires(rules[i], context)
           /\ s \in {<<i, j>> : j \in DOMAIN ChannelsOf[rules[i]]}
    BY <1>1, <1>3 DEF Sends
  <2>2. s[1] = i
    BY <2>1
  <2> QED BY <1>1, <2>1, <2>2
<1> HIDE DEF asked
<1>4. /\ lastFired' \in [Rules -> Stamps]
      /\ \A r \in Rules :
            /\ lastFired[r] <= lastFired'[r] /\ lastFired'[r] <= now /\ lastFired'[r] \in Int
            /\ lastFired'[r] = IF r \in firing' THEN now ELSE lastFired[r]
  BY <1>1, StampedIs, StampTypes
<1>5. Clocks'
  BY <1>1, <1>4, StampTypes, RecordedInv DEF IInv, Clocks
<1>6. UnderWay'
  <2>1. firing' = {} => sends' = {}
    BY <1>3
  <2> QED BY <1>1, <1>2, <1>3, <2>1 DEF UnderWay
<1>7. ReceivedApart'
  <2> SUFFICES ASSUME NEW r \in Rules, NEW c \in ChannelNames
               PROVE  /\ received[r][c] <= lastFired'[r]
                      /\ r \in firing' => \/ received[r][c] \in {Never, lastFired'[r]}
                                          \/ lastFired'[r] - received[r][c] >= Cooldown[r]
    BY <1>1 DEF ReceivedApart
  <2>1. received[r][c] <= lastFired'[r]
    <3>1. received[r][c] <= lastFired[r]
      BY DEF IInv, ReceivedApart
    <3> QED BY <1>4, <3>1, StampTypes
  <2>2. ASSUME r \in firing'
        PROVE  received[r][c] = Never \/ lastFired'[r] - received[r][c] >= Cooldown[r]
    BY <1>1, <1>4, <2>2, FiringIsApart
  <2> QED BY <2>1, <2>2
<1>8. FiredIsKnown'
  <2>1. \A r \in Rules : lastFired[r] <= reported[r] \/ lastFired[r] <= raised
    BY <1>1 DEF IInv, FiredIsKnown
  <2> QED BY <1>1, <1>4, <2>1 DEF FiredIsKnown
<1> QED BY <1>1, <1>5, <1>6, <1>7, <1>8, RecordedInv DEF IInv

(* What a channel has after a send is what it had, or the alert that fired.*)
LEMMA ReceiveIs ==
    ASSUME IInv, NEW s \in sends, Receive(s)
    PROVE  /\ received' \in [Rules -> [ChannelNames -> Stamps]]
           /\ \A r \in Rules, c \in ChannelNames :
                 received'[r][c] # received[r][c]
                 => received'[r][c] = lastFired[r] /\ r \in firing
<1> DEFINE q == RuleOf(s)
           d == ChannelOf(s)
<1>1. q \in firing /\ q \in Rules
  BY DEF IInv, UnderWay, RuleOf
<1>2. received' = [received EXCEPT ![q][d] = lastFired[q]]
  BY DEF Receive
<1>3. lastFired[q] \in Stamps /\ received \in [Rules -> [ChannelNames -> Stamps]]
  BY <1>1, StampTypes DEF IInv, Clocks
<1> HIDE DEF q, d
<1>4. received' \in [Rules -> [ChannelNames -> Stamps]]
  BY <1>1, <1>2, <1>3
<1>5. ASSUME NEW r \in Rules, NEW c \in ChannelNames, received'[r][c] # received[r][c]
      PROVE  received'[r][c] = lastFired[r] /\ r \in firing
  BY <1>1, <1>2, <1>3, <1>5
<1> QED BY <1>4, <1>5

(* An alert that is received does not disturb the times.                   *)
LEMMA SentApart ==
    ASSUME IInv, NEW s \in sends, UNCHANGED received \/ Receive(s)
    PROVE  /\ received' \in [Rules -> [ChannelNames -> Stamps]]
           /\ \A r \in Rules, c \in ChannelNames :
                 /\ received'[r][c] <= lastFired[r]
                 /\ r \in firing => \/ received'[r][c] \in {Never, lastFired[r]}
                                    \/ lastFired[r] - received'[r][c] >= Cooldown[r]
<1>1. received' \in [Rules -> [ChannelNames -> Stamps]]
  BY ReceiveIs DEF IInv, Clocks
<1>2. ASSUME NEW r \in Rules, NEW c \in ChannelNames
      PROVE  /\ received'[r][c] <= lastFired[r]
             /\ r \in firing => \/ received'[r][c] \in {Never, lastFired[r]}
                                \/ lastFired[r] - received'[r][c] >= Cooldown[r]
  <2>1. CASE received'[r][c] = received[r][c]
    BY <2>1 DEF IInv, ReceivedApart
  <2>2. CASE received'[r][c] # received[r][c]
    <3>1. received'[r][c] = lastFired[r]
      BY <2>2, ReceiveIs
    <3> QED BY <3>1, StampTypes
  <2> QED BY <2>1, <2>2
<1> QED BY <1>1, <1>2

LEMMA SendInv == ASSUME IInv, Send PROVE IInv'
<1>1. PICK s \in sends : /\ sends' = sends \ {s}
                         /\ UNCHANGED received \/ Receive(s)
                         /\ UNCHANGED <<now, rules, lastFired, window, firing>>
                         /\ UNCHANGED <<events, reported, raised>>
  BY DEF Send, manager, engine
<1>2. Clocks' /\ ReceivedApart'
  BY <1>1, SentApart DEF IInv, Clocks, ReceivedApart
<1>3. UnderWay'
  BY <1>1 DEF IInv, UnderWay
<1> QED BY <1>1, <1>2, <1>3 DEF IInv, FiredIsKnown, WindowTrue

LEMMA SendRaisesInv == ASSUME IInv, SendRaises PROVE IInv'
<1>1. PICK s \in sends : /\ firing' = {} /\ sends' = {} /\ raised' = now
                         /\ UNCHANGED received \/ Receive(s)
                         /\ UNCHANGED <<now, rules, lastFired, window>>
                         /\ UNCHANGED <<events, reported>>
  BY DEF SendRaises, manager, engine
<1>2. Clocks'
  BY <1>1, SentApart, StampTypes DEF IInv, Clocks
<1>3. ReceivedApart'
  BY <1>1, SentApart DEF ReceivedApart
<1>4. UnderWay' /\ FiredIsKnown'
  BY <1>1, StampTypes DEF UnderWay, FiredIsKnown
<1> QED BY <1>1, <1>2, <1>3, <1>4 DEF IInv, WindowTrue

LEMMA ReportInv == ASSUME IInv, Report PROVE IInv'
<1>1. /\ reported' = [r \in Rules |-> IF r \in firing THEN now ELSE reported[r]]
      /\ firing' = {} /\ sends = {} /\ sends' = {}
      /\ UNCHANGED <<now, rules, lastFired, window, events, received, raised>>
  BY DEF Report, manager, engine
<1>2. /\ reported' \in [Rules -> Stamps]
      /\ \A r \in Rules : reported'[r] = IF r \in firing THEN now ELSE reported[r]
  BY <1>1, StampTypes
<1>3. Clocks'
  BY <1>1, <1>2, StampTypes DEF IInv, Clocks
<1>4. FiredIsKnown'
  BY <1>1, <1>2, StampTypes DEF IInv, FiredIsKnown
<1>5. UnderWay' /\ ReceivedApart'
  BY <1>1 DEF IInv, UnderWay, ReceivedApart
<1> QED BY <1>1, <1>3, <1>4, <1>5 DEF IInv, WindowTrue

LEMMA TickInv == ASSUME IInv, Tick PROVE IInv'
<1>1. /\ now' = now + 1 /\ now' \in Times
      /\ UNCHANGED <<rules, lastFired, window, firing, sends>>
      /\ UNCHANGED <<events, reported, received, raised>>
  BY StampTypes DEF Tick, manager, engine, call, history, Times
<1>2. Clocks'
  <2>1. raised <= now' /\ \A r \in Rules : lastFired[r] <= now' /\ reported[r] <= now'
    BY <1>1, StampTypes
  <2> QED BY <1>1, <2>1 DEF IInv, Clocks
<1>3. WindowTrue'
  <2>1. \A t \in Times : t >= now' - Window => t >= now - Window
    BY <1>1, StampTypes DEF Times
  <2> QED BY <1>1, <2>1 DEF IInv, WindowTrue
<1> QED BY <1>1, <1>2, <1>3 DEF IInv, UnderWay, ReceivedApart, FiredIsKnown

(* Rules and channels change between the calls.                            *)
LEMMA ManagerInv ==
    ASSUME IInv, firing = {}, UNCHANGED <<now, engine, call, history>>, rules' \in Seq(Rules)
    PROVE  IInv'
<1>1. /\ firing' = {} /\ sends = {} /\ sends' = {}
      /\ UNCHANGED <<now, lastFired, window, events, reported, received, raised>>
  BY DEF IInv, UnderWay, engine, call, history
<1>2. Clocks' /\ UnderWay'
  BY <1>1 DEF IInv, Clocks, UnderWay
<1>3. ReceivedApart' /\ FiredIsKnown' /\ WindowTrue'
  BY <1>1 DEF IInv, ReceivedApart, FiredIsKnown, WindowTrue
<1> QED BY <1>2, <1>3 DEF IInv

LEMMA AddRuleSeq ==
    ASSUME rules \in Seq(Rules), NEW r \in Rules, AddRule(r)
    PROVE  rules' \in Seq(Rules)
<1>1. CASE Place(NameOf[r]) = {}
  BY <1>1 DEF AddRule
<1>2. CASE Place(NameOf[r]) # {}
  <2>1. rules' = [i \in DOMAIN rules |-> IF i \in Place(NameOf[r]) THEN r ELSE rules[i]]
    BY <1>2 DEF AddRule
  <2>2. DOMAIN rules = 1 .. Len(rules) /\ Len(rules) \in Nat
        /\ \A i \in DOMAIN rules : rules[i] \in Rules
    OBVIOUS
  <2>3. rules' \in [1 .. Len(rules) -> Rules]
    BY <2>1, <2>2
  <2>4. rules' \in UNION {[1 .. n -> Rules] : n \in Nat}
    BY <2>2, <2>3, Zenon
  <2> QED BY <2>4, SeqDef, Zenon
<1> QED BY <1>1, <1>2

(* The beginning of a sequence, its end, and two of them one after the     *)
(* other.                                                                  *)
LEMMA BeginIs ==
    ASSUME NEW S, NEW s \in Seq(S), NEW i \in 1 .. Len(s)
    PROVE  /\ SubSeq(s, 1, i - 1) \in Seq(S)
           /\ Len(SubSeq(s, 1, i - 1)) = i - 1
           /\ \A k \in 1 .. i - 1 : SubSeq(s, 1, i - 1)[k] = s[k]
<1>1. PICK n \in Nat : n = i - 1
  OBVIOUS
<1>2. \A j \in 1 .. n : s[j] \in S
  BY <1>1
<1>3. /\ SubSeq(s, 1, n) \in Seq(S)
      /\ Len(SubSeq(s, 1, n)) = IF 1 <= n THEN n - 1 + 1 ELSE 0
      /\ \A k \in 1 .. n - 1 + 1 : SubSeq(s, 1, n)[k] = s[1 + k - 1]
  <2>1. 1 \in Int /\ n \in Int
    OBVIOUS
  <2> QED BY <1>2, <2>1, SubSeqProperties
<1>4. /\ n - 1 + 1 = n /\ (IF 1 <= n THEN n - 1 + 1 ELSE 0) = n
      /\ \A k \in 1 .. n : 1 + k - 1 = k
  BY <1>1
<1>5. \A k \in 1 .. n : SubSeq(s, 1, n)[k] = s[k]
  BY <1>3, <1>4
<1> QED BY <1>1, <1>3, <1>4, <1>5

LEMMA EndIs ==
    ASSUME NEW S, NEW s \in Seq(S), NEW i \in 1 .. Len(s)
    PROVE  /\ SubSeq(s, i + 1, Len(s)) \in Seq(S)
           /\ Len(SubSeq(s, i + 1, Len(s))) = Len(s) - i
           /\ \A k \in 1 .. Len(s) - i : SubSeq(s, i + 1, Len(s))[k] = s[k + i]
<1>1. PICK n \in Nat : n = Len(s)
  OBVIOUS
<1>2. PICK m \in Nat : m = i + 1 /\ 1 <= m /\ m <= n + 1
  BY <1>1
<1>3. \A j \in m .. n : s[j] \in S
  BY <1>1, <1>2
<1>4. /\ SubSeq(s, m, n) \in Seq(S)
      /\ Len(SubSeq(s, m, n)) = IF m <= n THEN n - m + 1 ELSE 0
      /\ \A k \in 1 .. n - m + 1 : SubSeq(s, m, n)[k] = s[m + k - 1]
  <2>1. m \in Int /\ n \in Int
    OBVIOUS
  <2> QED BY <1>3, <2>1, SubSeqProperties
<1>5. n - m + 1 = n - i /\ (IF m <= n THEN n - m + 1 ELSE 0) = n - i
      /\ \A k \in 1 .. n - i : m + k - 1 = k + i
  BY <1>1, <1>2
<1>6. \A k \in 1 .. n - i : SubSeq(s, m, n)[k] = s[k + i]
  BY <1>4, <1>5
<1> QED BY <1>1, <1>2, <1>4, <1>5, <1>6

LEMMA BothAre ==
    ASSUME NEW S, NEW a \in Seq(S), NEW b \in Seq(S)
    PROVE  /\ DOMAIN (a \o b) = 1 .. Len(a) + Len(b)
           /\ \A k \in 1 .. Len(a) + Len(b) :
                 (a \o b)[k] = IF k <= Len(a) THEN a[k] ELSE b[k - Len(a)]
BY ConcatProperties

LEMMA RemoveRuleSeq ==
    ASSUME rules \in Seq(Rules), NEW name, RemoveRule(name)
    PROVE  rules' \in Seq(Rules)
<1>1. PICK i \in DOMAIN rules : rules' = RemoveAt(rules, i)
  BY DEF RemoveRule, Place
<1>2. i \in 1 .. Len(rules) /\ Len(rules) \in Nat
  OBVIOUS
<1>3. /\ SubSeq(rules, 1, i - 1) \in Seq(Rules)
      /\ SubSeq(rules, i + 1, Len(rules)) \in Seq(Rules)
  BY <1>2, BeginIs, EndIs
<1>4. rules' = SubSeq(rules, 1, i - 1) \o SubSeq(rules, i + 1, Len(rules))
  BY <1>1 DEF RemoveAt
<1> QED BY <1>3, <1>4, ConcatProperties

LEMMA StepInv == IInv /\ [Next]_vars => IInv'
<1> SUFFICES ASSUME IInv, [Next]_vars PROVE IInv'
  OBVIOUS
<1>1. ASSUME NEW kind, ProcessEvent(kind) PROVE IInv'
  BY <1>1, EvaluationRaisesInv, EvaluateInv DEF ProcessEvent
<1>2. ASSUME NEW r \in Rules, AddRule(r) PROVE IInv'
  BY <1>2, AddRuleSeq, ManagerInv DEF AddRule, IInv
<1>3. ASSUME NEW name, RemoveRule(name) PROVE IInv'
  BY <1>3, RemoveRuleSeq, ManagerInv DEF RemoveRule, IInv
<1>4. ASSUME NEW c, AddChannel(c) \/ RemoveChannel(c) PROVE IInv'
  BY <1>4, ManagerInv DEF AddChannel, RemoveChannel, IInv
<1>5. CASE UNCHANGED vars
  <2>1. UNCHANGED <<now, rules, lastFired, window, firing, sends>>
        /\ UNCHANGED <<events, reported, received, raised>>
    BY <1>5 DEF vars, manager, engine, call, history
  <2>2. Clocks' /\ UnderWay'
    BY <2>1 DEF IInv, Clocks, UnderWay
  <2>3. ReceivedApart' /\ FiredIsKnown' /\ WindowTrue'
    BY <2>1 DEF IInv, ReceivedApart, FiredIsKnown, WindowTrue
  <2> QED BY <2>1, <2>2, <2>3 DEF IInv
<1> QED BY <1>1, <1>2, <1>3, <1>4, <1>5, SendInv, SendRaisesInv, ReportInv, TickInv DEF Next

LEMMA Invariance == Spec => []IInv
BY InitInv, StepInv, PTL DEF Spec

------------------------------------------------------------------------------
(* The alerts of one rule that a channel receives fired a cooldown apart   *)
(* (AlertRule.evaluate).                                                   *)
THEOREM NoRepetition == Spec => OneAlertPerCooldown
<1> DEFINE Apart ==
             \A r \in Rules, c \in ChannelNames :
                 received'[r][c] # received[r][c] /\ received[r][c] # Never
                 => received'[r][c] - received[r][c] >= Cooldown[r]
<1>1. ASSUME IInv, [Next]_vars PROVE Apart
  <2> SUFFICES ASSUME NEW r \in Rules, NEW c \in ChannelNames,
                      received'[r][c] # received[r][c], received[r][c] # Never
               PROVE  received'[r][c] - received[r][c] >= Cooldown[r]
    OBVIOUS
  <2>1. PICK s \in sends : Receive(s)
    BY <1>1 DEF Next, vars, history, ProcessEvent, Report, Tick, Send, SendRaises,
                AddRule, RemoveRule, AddChannel, RemoveChannel
  <2>2. received'[r][c] = lastFired[r] /\ r \in firing
    BY <1>1, <2>1, ReceiveIs
  <2>3. received[r][c] # lastFired[r]
    BY <2>2
  <2> QED BY <1>1, <2>2, <2>3 DEF IInv, ReceivedApart
<1> QED BY <1>1, Invariance, PTL DEF Spec, OneAlertPerCooldown

(* A rule that does not fire fired within its cooldown, and that is known. *)
LEMMA WithheldIsKnown ==
    ASSUME IInv, firing = {}, NEW r \in Rules, Within(lastFired[r], Cooldown[r])
    PROVE  Within(reported[r], Cooldown[r]) \/ Within(raised, Cooldown[r])
<1>1. lastFired[r] # -1 /\ now - lastFired[r] < Cooldown[r] /\ lastFired[r] >= 0
  BY StampTypes DEF Within, Never, Stamps, Times
<1>2. lastFired[r] <= reported[r] \/ lastFired[r] <= raised
  BY DEF IInv, FiredIsKnown
<1>3. ASSUME lastFired[r] <= reported[r] PROVE Within(reported[r], Cooldown[r])
  <2>1. reported[r] # -1 /\ now - reported[r] < Cooldown[r]
    BY <1>1, <1>3, StampTypes
  <2> QED BY <2>1 DEF Within, Never
<1>4. ASSUME lastFired[r] <= raised PROVE Within(raised, Cooldown[r])
  <2>1. raised # -1 /\ now - raised < Cooldown[r]
    BY <1>1, <1>4, StampTypes
  <2> QED BY <2>1 DEF Within, Never
<1> QED BY <1>2, <1>3, <1>4

(* An alert that is due fires, or is withheld for no longer than the       *)
(* cooldown after its last report or after a call that raised              *)
(* (process_event).                                                        *)
THEOREM SilenceEnds == Spec => SilenceBounded
<1> DEFINE Spoken ==
             events' # events \/ lastFired' # lastFired =>
                \A i \in DOMAIN rules :
                    LET r == rules[i]
                    IN  Says(r, RecentEvents) = "true" /\ raised' # now
                        => \/ r \in firing'
                           \/ Within(reported[r], Cooldown[r])
                           \/ Within(raised, Cooldown[r])
<1>1. ASSUME IInv, [Next]_vars PROVE Spoken
  <2> SUFFICES ASSUME events' # events \/ lastFired' # lastFired,
                      NEW i \in DOMAIN rules,
                      Says(rules[i], RecentEvents) = "true", raised' # now
               PROVE  \/ rules[i] \in firing'
                      \/ Within(reported[rules[i]], Cooldown[rules[i]])
                      \/ Within(raised, Cooldown[rules[i]])
    OBVIOUS
  <2>1. PICK kind : ProcessEvent(kind)
    BY <1>1 DEF Next, vars, engine, history, Send, SendRaises, Report, Tick,
                AddRule, RemoveRule, AddChannel, RemoveChannel
  <2>2. firing = {} /\ Evaluate(Context(window'))
    BY <2>1 DEF ProcessEvent, EvaluationRaises
  <2>3. Says(rules[i], Context(window')) = "true"
    BY <1>1, <2>1, ContextIsTrue
  <2>4. rules[i] \in Rules
    BY <1>1 DEF IInv
  <2>5. CASE Fires(rules[i], Context(window'))
    BY <2>2, <2>5 DEF Evaluate
  <2>6. CASE ~Fires(rules[i], Context(window'))
    <3>1. Within(lastFired[rules[i]], Cooldown[rules[i]])
      BY <2>3, <2>6 DEF Fires
    <3> QED BY <1>1, <2>2, <2>4, <3>1, WithheldIsKnown
  <2> QED BY <2>5, <2>6
<1> QED BY <1>1, Invariance, PTL DEF Spec, SilenceBounded

------------------------------------------------------------------------------
(* The types.  The events in the window are some of those there were, and  *)
(* those are no more than the bound lets happen.                           *)
Distinct(s) == \A i, j \in DOMAIN s : NameOf[s[i]] = NameOf[s[j]] => i = j

Bounded == [Kinds -> [Times -> 0 .. MaxEvents]]

CountsOK ==
    /\ events \in Bounded /\ window \in Bounded
    /\ \A k \in Kinds, t \in Times : window[k][t] <= events[k][t]

TInv == Distinct(rules) /\ channels \subseteq ChannelNames /\ CountsOK

LEMMA TypeInit == Init => TInv
BY DEF Init, TInv, Distinct, CountsOK, Bounded, NoEvents, Times

LEMMA CountsStep ==
    ASSUME IInv, CountsOK, NEW kind, ProcessEvent(kind)
    PROVE  CountsOK'
<1>1. /\ now \in Times /\ MaxEvents \in Nat
      /\ events \in Counts /\ window \in Counts
      /\ \A k \in Kinds : events[k] \in [Times -> Nat]
      /\ \A k \in Kinds, t \in Times :
            /\ window[k][t] \in Nat /\ events[k][t] \in 0 .. MaxEvents
            /\ window[k][t] <= events[k][t]
  BY StampTypes DEF IInv, Clocks, CountsOK, Bounded
<1>2. ASSUME kind \in Kinds PROVE events[kind][now] + 1 <= MaxEvents
  <2>1. SumOf(events[kind]) \in Nat /\ events[kind][now] <= SumOf(events[kind])
    BY <1>1, <1>2, SumBounds
  <2>2. SumOf(events[kind]) < MaxEvents
    BY <1>2 DEF ProcessEvent
  <2> QED BY <1>1, <1>2, <2>1, <2>2
<1>3. events' = Counting(events, kind) /\ window' = Recorded(kind)
  BY DEF ProcessEvent
<1>4. ASSUME NEW k \in Kinds, NEW t \in Times
      PROVE  events'[k][t] \in 0 .. MaxEvents /\ window'[k][t] \in 0 .. MaxEvents
             /\ window'[k][t] <= events'[k][t]
  <2>1. events'[k][t] = IF k = kind /\ t = now THEN events[k][t] + 1 ELSE events[k][t]
    BY <1>1, <1>3, CountingIs
  <2>2. events'[k][t] \in 0 .. MaxEvents
    BY <1>1, <1>2, <2>1
  <2>3. window'[k][t] \in {0, IF k = kind /\ t = now THEN window[k][t] + 1 ELSE window[k][t]}
    <3>1. window'[k][t] \in {0, Counting(window, kind)[k][t]}
      BY <1>3, RecordedIs
    <3>2. Counting(window, kind)[k][t]
          = IF k = kind /\ t = now THEN window[k][t] + 1 ELSE window[k][t]
      BY <1>1, CountingIs
    <3> QED BY <3>1, <3>2
  <2>4. window'[k][t] \in Nat /\ window'[k][t] <= events'[k][t]
    BY <1>1, <2>1, <2>2, <2>3
  <2> QED BY <1>1, <2>2, <2>4
<1>5. events' \in Counts /\ window' \in Counts
  BY RecordedInv
<1>6. events' \in Bounded /\ window' \in Bounded
  BY <1>4, <1>5 DEF Bounded, Counts
<1> QED BY <1>4, <1>6 DEF CountsOK

(* A new rule takes the place of the one of its name.                      *)
LEMMA AddRuleDistinct ==
    ASSUME rules \in Seq(Rules), Distinct(rules), NEW r \in Rules, AddRule(r)
    PROVE  Distinct(rules')
<1>1. CASE Place(NameOf[r]) = {}
  <2>1. rules' = Append(rules, r) /\ \A i \in DOMAIN rules : NameOf[rules[i]] # NameOf[r]
    BY <1>1 DEF AddRule, Place
  <2>2. ASSUME NEW i \in DOMAIN rules', NEW j \in DOMAIN rules',
               NameOf[rules'[i]] = NameOf[rules'[j]]
        PROVE  i = j
    <3>1. \A k \in DOMAIN rules' :
             \/ k \in DOMAIN rules /\ rules'[k] = rules[k]
             \/ k = Len(rules) + 1 /\ rules'[k] = r
      BY <2>1
    <3> QED BY <2>1, <2>2, <3>1 DEF Distinct
  <2> QED BY <2>2 DEF Distinct
<1>2. CASE Place(NameOf[r]) # {}
  <2>1. rules' = [i \in DOMAIN rules |-> IF i \in Place(NameOf[r]) THEN r ELSE rules[i]]
    BY <1>2 DEF AddRule
  <2>2. DOMAIN rules' = DOMAIN rules
        /\ \A i \in DOMAIN rules : NameOf[rules'[i]] = NameOf[rules[i]]
    BY <2>1 DEF Place
  <2> QED BY <2>2 DEF Distinct
<1> QED BY <1>1, <1>2

(* Places behind a removed one.                                            *)
LEMMA PlaceIs ==
    ASSUME NEW n \in Nat, NEW i \in Int, NEW k \in Int, 1 <= i, i <= n, i <= k, k <= n - 1
    PROVE  /\ ~ (k <= i - 1) /\ k - (i - 1) \in 1 .. n - i
           /\ (k - (i - 1)) + i = k + 1 /\ k + 1 \in 1 .. n
<1>1. ~ (k <= i - 1) /\ k + 1 \in 1 .. n
  OBVIOUS
<1>2. (k - (i - 1)) + i = k + 1 /\ k - (i - 1) \in Int
  OBVIOUS
<1>3. 1 <= k - (i - 1) /\ k - (i - 1) <= n - i
  OBVIOUS
<1> QED BY <1>1, <1>2, <1>3

LEMMA RemoveRuleDistinct ==
    ASSUME rules \in Seq(Rules), Distinct(rules), NEW name, RemoveRule(name)
    PROVE  Distinct(rules')
<1>1. PICK i \in DOMAIN rules : rules' = RemoveAt(rules, i)
  BY DEF RemoveRule, Place
<1>2. Len(rules) \in Nat /\ i \in 1 .. Len(rules)
  OBVIOUS
<1> DEFINE a == SubSeq(rules, 1, i - 1)
           b == SubSeq(rules, i + 1, Len(rules))
<1>3. a \in Seq(Rules) /\ Len(a) = i - 1 /\ \A k \in 1 .. i - 1 : a[k] = rules[k]
  BY <1>2, BeginIs
<1>4. /\ b \in Seq(Rules) /\ Len(b) = Len(rules) - i
      /\ \A k \in 1 .. Len(rules) - i : b[k] = rules[k + i]
  BY <1>2, EndIs
<1>5. rules' = a \o b
  BY <1>1 DEF RemoveAt
<1> HIDE DEF a, b
<1>6. /\ DOMAIN rules' = 1 .. Len(rules) - 1
      /\ \A k \in 1 .. Len(rules) - 1 :
            rules'[k] = IF k <= i - 1 THEN a[k] ELSE b[k - (i - 1)]
  <2>1. Len(a) + Len(b) = Len(rules) - 1
    BY <1>2, <1>3, <1>4
  <2>2. /\ DOMAIN (a \o b) = 1 .. Len(a) + Len(b)
        /\ \A k \in 1 .. Len(a) + Len(b) :
              (a \o b)[k] = IF k <= Len(a) THEN a[k] ELSE b[k - Len(a)]
    <3>1. a \in Seq(Rules) /\ b \in Seq(Rules)
      BY <1>3, <1>4, Zenon
    <3> QED BY <3>1, BothAre, Zenon
  <2>3. DOMAIN rules' = 1 .. Len(rules) - 1
    BY <1>5, <2>1, <2>2, Zenon
  <2>4. ASSUME NEW k \in 1 .. Len(rules) - 1
        PROVE  rules'[k] = IF k <= i - 1 THEN a[k] ELSE b[k - (i - 1)]
    <3>1. (a \o b)[k] = IF k <= Len(a) THEN a[k] ELSE b[k - Len(a)]
      BY <2>1, <2>2, Zenon
    <3>2. rules'[k] = (a \o b)[k] /\ Len(a) = i - 1
      BY <1>3, <1>5, Zenon
    <3> QED BY <3>1, <3>2, Zenon
  <2> QED BY <2>3, <2>4, Zenon
<1> DEFINE From(k) == IF k < i THEN k ELSE k + 1
<1>7. ASSUME NEW k \in DOMAIN rules'
      PROVE  k \in Int /\ From(k) \in 1 .. Len(rules) /\ rules'[k] = rules[From(k)]
  <2>1. k \in 1 .. Len(rules) - 1 /\ k \in Int
    BY <1>6
  <2>2. rules'[k] = IF k <= i - 1 THEN a[k] ELSE b[k - (i - 1)]
    BY <1>6, <2>1
  <2>3. CASE k < i
    <3>1. k \in 1 .. i - 1 /\ k <= i - 1 /\ k \in 1 .. Len(rules)
      BY <1>2, <2>1, <2>3
    <3> QED BY <1>3, <2>1, <2>2, <2>3, <3>1
  <2>4. CASE ~ (k < i)
    <3>1. /\ ~ (k <= i - 1) /\ k - (i - 1) \in 1 .. Len(rules) - i
          /\ (k - (i - 1)) + i = k + 1 /\ k + 1 \in 1 .. Len(rules)
      <4>1. PICK n \in Nat : n = Len(rules)
        BY <1>2
      <4>2. i \in Int /\ 1 <= i /\ i <= n /\ k \in Int /\ i <= k /\ k <= n - 1
        BY <1>2, <2>1, <2>4, <4>1
      <4>3. /\ ~ (k <= i - 1) /\ k - (i - 1) \in 1 .. n - i
            /\ (k - (i - 1)) + i = k + 1 /\ k + 1 \in 1 .. n
        BY <4>2, PlaceIs
      <4> QED BY <4>1, <4>3, Zenon
    <3>2. b[k - (i - 1)] = rules[(k - (i - 1)) + i]
      BY <1>4, <3>1
    <3> QED BY <2>1, <2>2, <2>4, <3>1, <3>2
  <2> QED BY <2>3, <2>4
<1>8. ASSUME NEW k \in DOMAIN rules', NEW l \in DOMAIN rules',
             NameOf[rules'[k]] = NameOf[rules'[l]]
      PROVE  k = l
  <2>1. From(k) = From(l)
    <3>1. rules'[k] = rules[From(k)] /\ rules'[l] = rules[From(l)]
      BY <1>7, Zenon
    <3>2. From(k) \in DOMAIN rules /\ From(l) \in DOMAIN rules
      <4>1. From(k) \in 1 .. Len(rules) /\ From(l) \in 1 .. Len(rules)
        BY <1>7, Zenon
      <4>2. DOMAIN rules = 1 .. Len(rules)
        OBVIOUS
      <4> HIDE DEF From
      <4> QED BY <4>1, <4>2
    <3> HIDE DEF From
    <3>3. NameOf[rules[From(k)]] = NameOf[rules[From(l)]]
      BY <1>8, <3>1, Zenon
    <3> QED BY <3>2, <3>3, Zenon DEF Distinct
  <2>2. k \in Int /\ l \in Int
    BY <1>7, Zenon
  <2> QED BY <1>2, <2>1, <2>2
<1> QED BY <1>8 DEF Distinct

LEMMA TypeStep == IInv /\ TInv /\ [Next]_vars => TInv'
<1> SUFFICES ASSUME IInv, TInv, [Next]_vars PROVE TInv'
  OBVIOUS
<1> USE DEF TInv
<1>1. ASSUME NEW kind, ProcessEvent(kind) PROVE TInv'
  <2>1. UNCHANGED <<rules, channels>>
    BY <1>1 DEF ProcessEvent, manager
  <2> QED BY <1>1, <2>1, CountsStep DEF Distinct
<1>2. ASSUME UNCHANGED <<window, events>> PROVE CountsOK'
  BY <1>2 DEF CountsOK
<1>3. ASSUME NEW r \in Rules, AddRule(r) PROVE TInv'
  <2>1. Distinct(rules')
    BY <1>3, AddRuleDistinct DEF IInv
  <2> QED BY <1>2, <1>3, <2>1 DEF AddRule, engine, history
<1>4. ASSUME NEW name, RemoveRule(name) PROVE TInv'
  <2>1. Distinct(rules')
    BY <1>4, RemoveRuleDistinct DEF IInv
  <2> QED BY <1>2, <1>4, <2>1 DEF RemoveRule, engine, history
<1>5. ASSUME NEW c \in ChannelNames, AddChannel(c) \/ RemoveChannel(c) PROVE TInv'
  BY <1>2, <1>5 DEF AddChannel, RemoveChannel, engine, history, Distinct
<1>6. ASSUME UNCHANGED <<manager, window, events>> PROVE TInv'
  BY <1>2, <1>6 DEF manager, Distinct
<1>7. CASE Send \/ SendRaises \/ Report \/ Tick
  BY <1>6, <1>7 DEF Send, SendRaises, Report, Tick, engine, history
<1>8. CASE UNCHANGED vars
  BY <1>6, <1>8 DEF vars, engine, history
<1> QED BY <1>1, <1>3, <1>4, <1>5, <1>7, <1>8 DEF Next

(* Every variable keeps its type, and no two rules in force have one name: *)
(* add_rule replaces the rule of the name (AlertManager).                  *)
THEOREM TypeCorrect == Spec => []TypeOK
<1>1. IInv /\ TInv => TypeOK
  BY DEF IInv, TInv, Clocks, UnderWay, RuleOf, CountsOK, Bounded, Distinct, Stamps, TypeOK
<1> QED BY TypeInit, TypeStep, Invariance, <1>1, PTL DEF Spec

==============================================================================
