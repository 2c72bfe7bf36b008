---------------------------- MODULE Federated_proofs --------------------------
(* What a repository keeps, and how far apart a tenant's contributions lie,  *)
(* on any clock and for any intervals.                                       *)
EXTENDS Federated, SequenceTheorems, WellFoundedInduction, TLAPS

Older(p, q) == p.time < q.time \/ (p.time = q.time /\ p.id < q.id)

Shape ==
    /\ clock \in Times
    /\ patterns \in [Repositories -> Seq(Pattern)]
    /\ ingested \in [Repositories -> Nat]
    /\ evicted \in [Repositories -> SUBSET Pattern]
    /\ contributions \in [Aggregators ->
          Seq([tenant : Enabled, time : Times, stamp : Times, forced : BOOLEAN])]
    /\ lastContribution \in [Tenants -> Times \cup {Never}]
    /\ lastSync \in [Tenants -> Times \cup {Never}]
    /\ setBacks \in 0 .. MaxSetBacks

(* The patterns have the ids in the order in which they were made.         *)
InOrder ==
    \A r \in Repositories :
        /\ \A i \in DOMAIN patterns[r] : patterns[r][i].id < ingested[r]
        /\ \A i, j \in DOMAIN patterns[r] :
              i < j => patterns[r][i].id < patterns[r][j].id

(* A pattern goes only from a full repository, which stays full.           *)
Full ==
    \A r \in Repositories :
        /\ Len(patterns[r]) <= MaxPatterns
        /\ evicted[r] # {} => Len(patterns[r]) = MaxPatterns

(* Whose contributions an aggregator has.                                  *)
Belong ==
    \A a \in Aggregators : \A i \in DOMAIN contributions[a] :
        AggregatorOf[contributions[a][i].tenant] = a

(* The last contribution was noted: no earlier one that limits it is later. *)
LastNoted ==
    \A a \in Aggregators : \A i \in DOMAIN contributions[a] :
        (\A k \in i + 1 .. Len(contributions[a]) :
            contributions[a][k].tenant = contributions[a][i].tenant
            => ~contributions[a][k].forced)
        => contributions[a][i].time <= lastContribution[contributions[a][i].tenant]

IInv == Shape /\ InOrder /\ Full /\ NewestKept
        /\ Belong /\ LastNoted /\ ContributionsSpaced

USE FederatedAssumption

------------------------------------------------------------------------------
(* The least of some numbers, and the oldest of some patterns.             *)
Less == OpToRel(<, Nat)

LEMMA LeastExists ==
    ASSUME NEW T, T \subseteq Nat, T # {}
    PROVE  \E x \in T : \A y \in T : x <= y
<1>1. IsWellFoundedOn(Less, Nat)
  BY NatLessThanWellFounded DEF Less
<1>2. PICK x \in T : \A y \in T : ~ (<<y, x>> \in Less)
  BY <1>1, WFMin
<1>3. \A y \in T : ~ (<<y, x>> \in {ss \in Nat \X Nat : ss[1] < ss[2]})
  BY <1>2 DEF OpToRel, Less
<1>4. ASSUME NEW y \in T PROVE x <= y
  <2>1. <<y, x>> \in Nat \X Nat /\ <<y, x>>[1] = y /\ <<y, x>>[2] = x
    OBVIOUS
  <2>2. ~ (y < x)
    BY <1>3, <2>1
  <2>3. QED
    BY <2>1, <2>2
<1>5. QED
  BY <1>4

LEMMA OldestIs ==
    ASSUME NEW list \in Seq(Pattern), Len(list) > 0
    PROVE  /\ Oldest(list) \in DOMAIN list
           /\ \A j \in DOMAIN list :
                 \/ list[Oldest(list)].time < list[j].time
                 \/ list[Oldest(list)].time = list[j].time /\ Oldest(list) <= j
<1> DEFINE First(i) == \A j \in DOMAIN list :
                          list[i].time < list[j].time \/ (list[i].time = list[j].time /\ i <= j)
<1>1. /\ DOMAIN list = 1 .. Len(list) /\ Len(list) \in Nat
      /\ \A j \in DOMAIN list : list[j].time \in Nat
  <2>1. \A j \in 1 .. Len(list) : list[j] \in Pattern
    OBVIOUS
  <2>2. \A p \in Pattern : p.time \in Nat
    BY DEF Pattern, Times
  <2>3. QED
    BY <2>1, <2>2
<1>2. PICK least \in {list[i].time : i \in DOMAIN list} :
         \A y \in {list[i].time : i \in DOMAIN list} : least <= y
  <2>1. {list[i].time : i \in DOMAIN list} \subseteq Nat
    BY <1>1
  <2>2. list[1].time \in {list[i].time : i \in DOMAIN list}
    BY <1>1
  <2>3. QED
    BY <2>1, <2>2, LeastExists
<1>3. PICK i \in {k \in DOMAIN list : list[k].time = least} :
         \A k \in {k \in DOMAIN list : list[k].time = least} : i <= k
  <2>1. {k \in DOMAIN list : list[k].time = least} \subseteq Nat
    BY <1>1
  <2>2. {k \in DOMAIN list : list[k].time = least} # {}
    BY <1>2
  <2>3. QED
    BY <2>1, <2>2, LeastExists
<1>4. First(i)
  <2> SUFFICES ASSUME NEW j \in DOMAIN list
               PROVE  list[i].time < list[j].time \/ (list[i].time = list[j].time /\ i <= j)
    OBVIOUS
  <2>1. least <= list[j].time /\ list[i].time = least
    BY <1>2, <1>3
  <2>2. CASE list[j].time = least
    BY <1>3, <2>1, <2>2
  <2>3. CASE list[j].time # least
    BY <1>1, <1>3, <2>1, <2>3
  <2>4. QED
    BY <2>2, <2>3
<1>5. i \in DOMAIN list
  BY <1>3
<1>6. Oldest(list) = CHOOSE k \in DOMAIN list : First(k)
  BY DEF Oldest
<1>7. Oldest(list) \in DOMAIN list /\ First(Oldest(list))
  <2> HIDE DEF First
  <2>1. QED
    BY <1>4, <1>5, <1>6
<1>8. QED
  BY <1>7

(* What is left when an element is removed.                                *)
LEMMA RemoveAtIs ==
    ASSUME NEW S, NEW s \in Seq(S), NEW i \in 1 .. Len(s)
    PROVE  /\ RemoveAt(s, i) \in Seq(S)
           /\ Len(RemoveAt(s, i)) = Len(s) - 1
           /\ \A k \in 1 .. Len(s) - 1 :
                 RemoveAt(s, i)[k] = IF k < i THEN s[k] ELSE s[k + 1]
<1>1. /\ SubSeq(s, 1, i - 1) \in Seq(S) /\ Len(SubSeq(s, 1, i - 1)) = i - 1
      /\ \A k \in 1 .. i - 1 : SubSeq(s, 1, i - 1)[k] = s[k]
  OBVIOUS
<1>2. /\ SubSeq(s, i + 1, Len(s)) \in Seq(S) /\ Len(SubSeq(s, i + 1, Len(s))) = Len(s) - i
      /\ \A k \in 1 .. Len(s) - i : SubSeq(s, i + 1, Len(s))[k] = s[i + k]
  OBVIOUS
<1>3. RemoveAt(s, i) = SubSeq(s, 1, i - 1) \o SubSeq(s, i + 1, Len(s))
  BY DEF RemoveAt
<1> DEFINE front == SubSeq(s, 1, i - 1)
           back == SubSeq(s, i + 1, Len(s))
<1> HIDE DEF front, back
<1>4. /\ front \o back \in Seq(S) /\ Len(front \o back) = Len(front) + Len(back)
      /\ \A k \in 1 .. Len(front) + Len(back) :
            (front \o back)[k] = IF k <= Len(front) THEN front[k] ELSE back[k - Len(front)]
  <2>1. front \in Seq(S) /\ back \in Seq(S)
    BY <1>1, <1>2 DEF front, back
  <2>2. QED
    BY <2>1
<1>5. RemoveAt(s, i) = front \o back /\ Len(front) = i - 1 /\ Len(back) = Len(s) - i
  BY <1>1, <1>2, <1>3 DEF front, back
<1>6. ASSUME NEW k \in 1 .. Len(s) - 1
      PROVE  (front \o back)[k] = IF k < i THEN s[k] ELSE s[k + 1]
  <2>1. CASE k < i
    <3>1. (front \o back)[k] = front[k]
      BY <1>4, <1>5, <2>1
    <3>2. k \in 1 .. i - 1
      BY <2>1
    <3>3. QED
      BY <1>1, <2>1, <3>1, <3>2 DEF front
  <2>2. CASE ~(k < i)
    <3>1. (front \o back)[k] = back[k - (i - 1)]
      BY <1>4, <1>5, <2>2
    <3>2. k - (i - 1) \in 1 .. Len(s) - i /\ i + (k - (i - 1)) = k + 1
      BY <2>2
    <3>3. back[k - (i - 1)] = s[k + 1]
      BY <1>2, <3>2 DEF back
    <3>4. QED
      BY <2>2, <3>1, <3>3
  <2>3. QED
    BY <2>1, <2>2
<1>7. RemoveAt(s, i) \in Seq(S)
  BY <1>4, <1>5
<1>8. Len(RemoveAt(s, i)) = Len(s) - 1
  <2>1. Len(s) \in Nat /\ i \in Nat /\ (i - 1) + (Len(s) - i) = Len(s) - 1
    OBVIOUS
  <2>2. QED
    BY <1>4, <1>5, <2>1
<1>9. QED
  BY <1>5, <1>6, <1>7, <1>8

------------------------------------------------------------------------------
(* The list with a new pattern, before the oldest goes.                    *)
Extended(r, time) == Append(patterns[r], [id |-> ingested[r], time |-> time])

LEMMA ListIs ==
    ASSUME IInv, NEW r \in Repositories, NEW time \in Times, NEW list,
           list = Extended(r, time)
    PROVE  /\ list \in Seq(Pattern) /\ Len(list) = Len(patterns[r]) + 1
           /\ \A i \in 1 .. Len(patterns[r]) : list[i] = patterns[r][i]
           /\ \A i \in 1 .. Len(list) : list[i].id < ingested[r] + 1
           /\ \A i, j \in 1 .. Len(list) : i < j => list[i].id < list[j].id
           /\ \A i \in 1 .. Len(list) : list[i].id \in Nat /\ list[i].time \in Nat
<1> DEFINE new == [id |-> ingested[r], time |-> time]
           old == patterns[r]
<1>1. old \in Seq(Pattern) /\ new \in Pattern /\ ingested[r] \in Nat
  BY DEF IInv, Shape, Pattern, Times
<1>2. new.id = ingested[r]
  OBVIOUS
<1>3. /\ \A i \in 1 .. Len(old) : old[i].id < ingested[r]
      /\ \A i, j \in 1 .. Len(old) : i < j => old[i].id < old[j].id
  <2>1. DOMAIN old = 1 .. Len(old)
    BY <1>1
  <2>2. QED
    BY <2>1 DEF IInv, InOrder
<1> HIDE DEF new, old
<1>4. list = Append(old, new)
  BY DEF new, old, Extended
<1>5. /\ list \in Seq(Pattern) /\ Len(list) = Len(old) + 1 /\ Len(old) \in Nat
      /\ \A i \in 1 .. Len(old) : list[i] = old[i]
      /\ list[Len(old) + 1] = new
  <2>1. Append(old, new) \in Seq(Pattern) /\ Len(Append(old, new)) = Len(old) + 1
    BY <1>1
  <2>2. \A i \in 1 .. Len(old) : Append(old, new)[i] = old[i]
    BY <1>1
  <2>3. Append(old, new)[Len(old) + 1] = new
    BY <1>1
  <2>4. Len(old) \in Nat
    BY <1>1
  <2>5. QED
    BY <1>4, <2>1, <2>2, <2>3, <2>4
<1>6. \A i \in 1 .. Len(list) : list[i].id \in Nat /\ list[i].time \in Nat
  <2>1. \A i \in 1 .. Len(list) : list[i] \in Pattern
    BY <1>5
  <2>2. \A p \in Pattern : p.id \in Nat /\ p.time \in Nat
    BY DEF Pattern, Times
  <2>3. QED
    BY <2>1, <2>2
<1>7. ASSUME NEW i \in 1 .. Len(list) PROVE list[i].id < ingested[r] + 1
  <2>1. CASE i \in 1 .. Len(old)
    <3>1. list[i].id < ingested[r] /\ list[i].id \in Nat
      BY <1>3, <1>5, <1>6, <2>1
    <3>2. QED
      BY <1>1, <3>1
  <2>2. CASE i = Len(old) + 1
    BY <1>1, <1>2, <1>5, <2>2
  <2>3. QED
    BY <1>5, <2>1, <2>2
<1>8. ASSUME NEW i \in 1 .. Len(list), NEW j \in 1 .. Len(list), i < j
      PROVE  list[i].id < list[j].id
  <2>1. i \in 1 .. Len(old)
    BY <1>5, <1>8
  <2>2. CASE j \in 1 .. Len(old)
    BY <1>3, <1>5, <1>8, <2>1, <2>2
  <2>3. CASE j = Len(old) + 1
    BY <1>2, <1>3, <1>5, <2>1, <2>3
  <2>4. QED
    BY <1>5, <2>2, <2>3
<1>9. QED
  BY <1>5, <1>6, <1>7, <1>8 DEF new, old

LEMMA OlderTransitive ==
    ASSUME NEW p, NEW q, NEW s,
           p.id \in Nat, q.id \in Nat, s.id \in Nat,
           p.time \in Nat, q.time \in Nat, s.time \in Nat,
           Older(p, q), Older(q, s)
    PROVE  Older(p, s)
BY DEF Older

(* One ingestion, of the repository it is for.                             *)
LEMMA KeptIs ==
    ASSUME IInv, NEW r \in Repositories, NEW time \in Times, NEW list,
           list = Extended(r, time)
    PROVE  /\ Kept(list) \in Seq(Pattern)
           /\ Len(Kept(list)) <= MaxPatterns
           /\ \A i \in 1 .. Len(Kept(list)) : Kept(list)[i].id < ingested[r] + 1
           /\ \A i, j \in 1 .. Len(Kept(list)) : i < j => Kept(list)[i].id < Kept(list)[j].id
           /\ LET gone == evicted[r] \cup (Range(list) \ Range(Kept(list)))
              IN  /\ gone \in SUBSET Pattern
                  /\ gone # {} => Len(Kept(list)) = MaxPatterns
                  /\ \A g \in gone, k \in Range(Kept(list)) : Older(g, k)
<1> DEFINE gone == evicted[r] \cup (Range(list) \ Range(Kept(list)))
<1>1. /\ list \in Seq(Pattern) /\ Len(list) = Len(patterns[r]) + 1
      /\ \A i \in 1 .. Len(patterns[r]) : list[i] = patterns[r][i]
      /\ \A i \in 1 .. Len(list) : list[i].id < ingested[r] + 1
      /\ \A i, j \in 1 .. Len(list) : i < j => list[i].id < list[j].id
      /\ \A i \in 1 .. Len(list) : list[i].id \in Nat /\ list[i].time \in Nat
  BY ListIs
<1>2. /\ Len(patterns[r]) \in Nat /\ Len(patterns[r]) <= MaxPatterns
      /\ evicted[r] # {} => Len(patterns[r]) = MaxPatterns
      /\ evicted[r] \in SUBSET Pattern
      /\ DOMAIN patterns[r] = 1 .. Len(patterns[r])
      /\ MaxPatterns \in Nat
  BY DEF IInv, Shape, Full
<1>3. \A p \in Pattern : p.id \in Nat /\ p.time \in Nat
  BY DEF Pattern, Times
<1>4. CASE Len(list) <= MaxPatterns
  <2>1. Kept(list) = list
    BY <1>1, <1>2, <1>4 DEF Kept
  <2>2. gone = {}
    <3>1. Len(patterns[r]) # MaxPatterns
      BY <1>1, <1>2, <1>4
    <3>2. evicted[r] = {}
      BY <1>2, <3>1
    <3>3. QED
      BY <2>1, <3>2
  <2>3. QED
    BY <1>1, <1>4, <2>1, <2>2
<1>5. CASE ~(Len(list) <= MaxPatterns)
  <2> DEFINE o == Oldest(list)
  <2>1. Len(list) = MaxPatterns + 1 /\ Len(patterns[r]) = MaxPatterns /\ Len(list) > 0
    BY <1>1, <1>2, <1>5
  <2>2. /\ o \in 1 .. Len(list)
        /\ \A j \in 1 .. Len(list) :
              list[o].time < list[j].time \/ (list[o].time = list[j].time /\ o <= j)
    <3>1. DOMAIN list = 1 .. Len(list)
      BY <1>1
    <3>2. QED
      BY <1>1, <2>1, <3>1, OldestIs
  <2>3. Kept(list) = RemoveAt(list, o)
    BY <1>1, <1>2, <1>5 DEF Kept
  <2> HIDE DEF o
  <2> DEFINE kept == RemoveAt(list, o)
  <2>4. /\ kept \in Seq(Pattern) /\ Len(kept) = MaxPatterns
        /\ \A k \in 1 .. MaxPatterns : kept[k] = IF k < o THEN list[k] ELSE list[k + 1]
    <3>1. Len(list) - 1 = MaxPatterns
      BY <1>2, <2>1
    <3>2. /\ kept \in Seq(Pattern) /\ Len(kept) = Len(list) - 1
          /\ \A k \in 1 .. Len(list) - 1 : kept[k] = IF k < o THEN list[k] ELSE list[k + 1]
      <4>1. list \in Seq(Pattern) /\ o \in 1 .. Len(list)
        BY <1>1, <2>2
      <4>2. QED
        BY <4>1, RemoveAtIs
    <3> HIDE DEF kept
    <3>3. QED
      BY <3>1, <3>2
  <2> HIDE DEF kept
  <2>5. \A k \in 1 .. MaxPatterns :
           \E i \in 1 .. Len(list) :
              i # o /\ kept[k] = list[i] /\ (i <= o => i = k) /\ (i > o => i = k + 1)
    <3> SUFFICES ASSUME NEW k \in 1 .. MaxPatterns
                 PROVE  \E i \in 1 .. Len(list) :
                           i # o /\ kept[k] = list[i] /\ (i <= o => i = k)
                           /\ (i > o => i = k + 1)
      OBVIOUS
    <3>1. CASE k < o
      <4>1. k \in 1 .. Len(list) /\ k # o /\ kept[k] = list[k] /\ ~(k > o)
        BY <1>2, <2>1, <2>2, <2>4, <3>1
      <4>2. QED
        BY <4>1
    <3>2. CASE ~(k < o)
      <4>1. k + 1 \in 1 .. Len(list) /\ k + 1 # o /\ kept[k] = list[k + 1] /\ ~(k + 1 <= o)
        BY <1>2, <2>1, <2>2, <2>4, <3>2
      <4>2. QED
        BY <4>1
    <3>3. QED
      BY <3>1, <3>2
  <2>6. \A k \in 1 .. MaxPatterns : kept[k].id < ingested[r] + 1
    BY <1>1, <2>5
  <2>7. ASSUME NEW k \in 1 .. MaxPatterns, NEW l \in 1 .. MaxPatterns, k < l
        PROVE  kept[k].id < kept[l].id
    <3>1. CASE k < o /\ l < o
      <4>1. k \in 1 .. Len(list) /\ l \in 1 .. Len(list)
        BY <1>2, <2>1, <2>7
      <4>2. QED
        BY <1>1, <2>4, <2>7, <3>1, <4>1
    <3>2. CASE k < o /\ ~(l < o)
      <4>1. k \in 1 .. Len(list) /\ l + 1 \in 1 .. Len(list) /\ k < l + 1
        BY <1>2, <2>1, <2>7
      <4>2. QED
        BY <1>1, <2>4, <3>2, <4>1
    <3>3. CASE ~(k < o) /\ ~(l < o)
      <4>1. k + 1 \in 1 .. Len(list) /\ l + 1 \in 1 .. Len(list) /\ k + 1 < l + 1
        BY <1>2, <2>1, <2>7
      <4>2. QED
        BY <1>1, <2>4, <3>3, <4>1
    <3>4. QED
      BY <2>2, <2>7, <3>1, <3>2, <3>3
  <2>8. \A p \in Range(kept) : \E i \in 1 .. Len(list) : i # o /\ p = list[i]
    <3>1. DOMAIN kept = 1 .. MaxPatterns
      BY <2>4
    <3>2. QED
      BY <2>5, <3>1 DEF Range
  <2>9. Range(list) \ Range(kept) \subseteq {list[o]}
    <3> SUFFICES ASSUME NEW i \in 1 .. Len(list), i # o PROVE list[i] \in Range(kept)
      <4>1. DOMAIN list = 1 .. Len(list)
        BY <1>1
      <4>2. QED
        BY <4>1 DEF Range
    <3>1. DOMAIN kept = 1 .. MaxPatterns
      BY <2>4
    <3>2. CASE i < o
      <4>1. i \in 1 .. MaxPatterns /\ kept[i] = list[i]
        BY <1>2, <2>1, <2>2, <2>4, <3>2
      <4>2. QED
        BY <3>1, <4>1 DEF Range
    <3>3. CASE i > o
      <4>1. i - 1 \in 1 .. MaxPatterns /\ ~(i - 1 < o) /\ (i - 1) + 1 = i
        BY <1>2, <2>1, <2>2, <3>3
      <4>2. kept[i - 1] = list[i]
        BY <2>4, <4>1
      <4>3. QED
        BY <3>1, <4>1, <4>2 DEF Range
    <3>4. QED
      BY <2>2, <3>2, <3>3
  <2>10. ASSUME NEW i \in 1 .. Len(list), i # o PROVE Older(list[o], list[i])
    <3>1. CASE list[o].time < list[i].time
      BY <3>1 DEF Older
    <3>2. CASE list[o].time = list[i].time /\ o <= i
      <4>1. o < i
        BY <2>2, <2>10, <3>2
      <4>2. list[o].id < list[i].id
        BY <1>1, <2>2, <4>1
      <4>3. QED
        BY <3>2, <4>2 DEF Older
    <3>3. QED
      BY <2>2, <3>1, <3>2
  <2>11. ASSUME NEW g \in evicted[r], NEW i \in 1 .. Len(patterns[r])
         PROVE  Older(g, list[i])
    <3>1. patterns[r][i] \in Range(patterns[r])
      BY <1>2 DEF Range
    <3>2. Older(g, patterns[r][i])
      BY <3>1 DEF IInv, NewestKept, Older
    <3>3. QED
      BY <1>1, <3>2
  <2>12. ASSUME NEW g \in gone, NEW k \in Range(kept), Kept(list) = kept PROVE Older(g, k)
    <3>1. PICK i \in 1 .. Len(list) : i # o /\ k = list[i]
      BY <2>8
    <3>2. CASE g \in evicted[r]
      <4>1. CASE i \in 1 .. Len(patterns[r])
        BY <2>11, <3>1, <3>2, <4>1
      <4>2. CASE i = Len(list)
        <5>1. o \in 1 .. Len(patterns[r])
          BY <1>1, <1>2, <2>2, <3>1, <4>2
        <5>2. Older(g, list[o]) /\ Older(list[o], list[i])
          BY <2>10, <2>11, <3>1, <3>2, <5>1
        <5>3. /\ g.id \in Nat /\ g.time \in Nat
              /\ list[o].id \in Nat /\ list[o].time \in Nat
              /\ list[i].id \in Nat /\ list[i].time \in Nat
          BY <1>1, <1>2, <1>3, <2>2, <3>2
        <5>4. Older(g, list[i])
          BY <5>2, <5>3, OlderTransitive
        <5>5. QED
          BY <3>1, <5>4
      <4>3. QED
        BY <1>1, <1>2, <3>1, <4>1, <4>2
    <3>3. CASE g \in Range(list) \ Range(kept)
      <4>1. g = list[o]
        BY <2>9, <3>3
      <4>2. QED
        BY <2>10, <3>1, <4>1
    <3>4. QED
      BY <2>12, <3>2, <3>3
  <2>13. Kept(list) = kept
    BY <2>3 DEF kept
  <2>14. gone \in SUBSET Pattern
    <3>1. Range(list) \subseteq Pattern
      BY <1>1 DEF Range
    <3>2. QED
      BY <1>2, <3>1
  <2>15. QED
    BY <2>4, <2>6, <2>7, <2>12, <2>13, <2>14
<1>6. QED
  BY <1>4, <1>5

------------------------------------------------------------------------------
patternVars == <<patterns, ingested, evicted>>

(* Patterns only change in an ingestion, of one repository.                *)
LEMMA IngestInv ==
    ASSUME IInv, NEW r \in Repositories, Ingest(r), clock' \in Times
    PROVE  /\ patterns' \in [Repositories -> Seq(Pattern)]
           /\ ingested' \in [Repositories -> Nat]
           /\ evicted' \in [Repositories -> SUBSET Pattern]
           /\ InOrder' /\ Full' /\ NewestKept'
<1> DEFINE list == Append(patterns[r], [id |-> ingested[r], time |-> clock'])
           gone == evicted[r] \cup (Range(list) \ Range(Kept(list)))
<1>1. /\ Kept(list) \in Seq(Pattern)
      /\ Len(Kept(list)) <= MaxPatterns
      /\ \A i \in 1 .. Len(Kept(list)) : Kept(list)[i].id < ingested[r] + 1
      /\ \A i, j \in 1 .. Len(Kept(list)) : i < j => Kept(list)[i].id < Kept(list)[j].id
      /\ gone \in SUBSET Pattern
      /\ gone # {} => Len(Kept(list)) = MaxPatterns
      /\ \A g \in gone, k \in Range(Kept(list)) : Older(g, k)
  <2>1. list = Extended(r, clock')
    BY DEF Extended
  <2> HIDE DEF list
  <2> QED BY <2>1, KeptIs
<1>2. /\ patterns' = [patterns EXCEPT ![r] = Kept(list)]
      /\ ingested' = [ingested EXCEPT ![r] = ingested[r] + 1]
      /\ evicted' = [evicted EXCEPT ![r] = gone]
  BY DEF Ingest
<1> DEFINE kept == Kept(list)
<1>3. /\ kept \in Seq(Pattern)
      /\ Len(kept) <= MaxPatterns
      /\ \A i \in 1 .. Len(kept) : kept[i].id < ingested[r] + 1
      /\ \A i, j \in 1 .. Len(kept) : i < j => kept[i].id < kept[j].id
      /\ gone \in SUBSET Pattern
      /\ gone # {} => Len(kept) = MaxPatterns
      /\ \A g \in gone, k \in Range(kept) : Older(g, k)
  BY <1>1
<1>4. /\ patterns' = [patterns EXCEPT ![r] = kept]
      /\ evicted' = [evicted EXCEPT ![r] = gone]
  BY <1>2
<1> HIDE DEF gone, kept
<1>5. /\ patterns \in [Repositories -> Seq(Pattern)] /\ ingested \in [Repositories -> Nat]
      /\ evicted \in [Repositories -> SUBSET Pattern]
  BY DEF IInv, Shape
<1>6. /\ patterns' \in [Repositories -> Seq(Pattern)]
      /\ ingested' \in [Repositories -> Nat]
      /\ evicted' \in [Repositories -> SUBSET Pattern]
  BY <1>2, <1>3, <1>4, <1>5
<1>7. /\ patterns'[r] = kept /\ ingested'[r] = ingested[r] + 1 /\ evicted'[r] = gone
      /\ \A q \in Repositories \ {r} :
            /\ patterns'[q] = patterns[q] /\ ingested'[q] = ingested[q]
            /\ evicted'[q] = evicted[q]
  BY <1>2, <1>4, <1>5
<1>8. InOrder'
  <2> SUFFICES ASSUME NEW q \in Repositories
               PROVE  /\ \A i \in DOMAIN patterns'[q] : patterns'[q][i].id < ingested'[q]
                      /\ \A i, j \in DOMAIN patterns'[q] :
                            i < j => patterns'[q][i].id < patterns'[q][j].id
    BY DEF InOrder
  <2>1. CASE q = r
    <3>1. DOMAIN kept = 1 .. Len(kept)
      BY <1>3
    <3>2. QED
      BY <1>3, <1>7, <2>1, <3>1
  <2>2. CASE q # r
    BY <1>7, <2>2 DEF IInv, InOrder
  <2>3. QED
    BY <2>1, <2>2
<1>9. Full'
  BY <1>3, <1>7 DEF IInv, Full
<1>10. NewestKept'
  <2> SUFFICES ASSUME NEW q \in Repositories, NEW g \in evicted'[q],
                      NEW k \in Range(patterns'[q])
               PROVE  Older(g, k)
    BY DEF NewestKept, Older
  <2>1. CASE q = r
    BY <1>3, <1>7, <2>1
  <2>2. CASE q # r
    BY <1>7, <2>2 DEF IInv, NewestKept, Older
  <2>3. QED
    BY <2>1, <2>2
<1>11. QED
  BY <1>6, <1>8, <1>9, <1>10

LEMMA PatternsStay ==
    ASSUME IInv, UNCHANGED patternVars
    PROVE  /\ patterns' \in [Repositories -> Seq(Pattern)]
           /\ ingested' \in [Repositories -> Nat]
           /\ evicted' \in [Repositories -> SUBSET Pattern]
           /\ InOrder' /\ Full' /\ NewestKept'
BY DEF patternVars, IInv, Shape, InOrder, Full, NewestKept

------------------------------------------------------------------------------
Contribution == [tenant : Enabled, time : Times, stamp : Times, forced : BOOLEAN]

(* The clock stays within its bounds.                                      *)
LEMMA MeanwhileIs ==
    ASSUME IInv, Meanwhile \/ TimePasses \/ IsSetBack
    PROVE  clock' \in Times /\ setBacks' \in 0 .. MaxSetBacks
BY DEF IInv, Shape, Times, Meanwhile, TimePasses, IsSetBack

(* A contribution comes the interval after those that limit it, or is      *)
(* forced.                                                                 *)
LEMMA ContributeInv ==
    ASSUME IInv, NEW t \in Tenants, NEW force \in BOOLEAN, Contribute(t, force)
    PROVE  /\ contributions' \in [Aggregators -> Seq(Contribution)]
           /\ lastContribution' \in [Tenants -> Times \cup {Never}]
           /\ Belong' /\ LastNoted' /\ ContributionsSpaced'
<1> DEFINE a == AggregatorOf[t]
           old == contributions[a]
           new == [tenant |-> t, time |-> clock, stamp |-> clock', forced |-> force]
           list == Append(old, new)
           n == Len(old)
<1>1. /\ a \in Aggregators /\ old \in Seq(Contribution) /\ new \in Contribution
      /\ n \in Nat /\ clock \in Nat /\ clock \in Times
  <2>1. a \in Aggregators
    OBVIOUS
  <2>2. old \in Seq(Contribution)
    BY <2>1 DEF IInv, Shape, Contribution
  <2>3. clock \in Times /\ clock \in Nat
    BY DEF IInv, Shape, Times
  <2>4. new \in Contribution
    <3>1. t \in Enabled /\ clock' \in Times
      BY MeanwhileIs DEF Contribute
    <3> QED BY <2>3, <3>1 DEF Contribution
  <2>5. QED
    BY <2>1, <2>2, <2>3, <2>4
<1>2. new.tenant = t /\ new.time = clock /\ new.forced = force
  OBVIOUS
<1>3. /\ contributions' = [contributions EXCEPT ![a] = list]
      /\ lastContribution' = [lastContribution EXCEPT ![t] = clock]
      /\ ~force => Due(lastContribution[t], ContributionInterval)
  BY DEF Contribute
<1>4. /\ \A i \in 1 .. n : old[i].tenant \in Tenants /\ old[i].time \in Nat
      /\ \A i \in 1 .. n : old[i].forced \in BOOLEAN
  <2>1. \A i \in 1 .. n : old[i] \in Contribution
    BY <1>1
  <2>2. \A c \in Contribution : c.tenant \in Tenants /\ c.time \in Nat /\ c.forced \in BOOLEAN
    BY DEF Contribution, Times
  <2>3. QED
    BY <2>1, <2>2
<1>5. /\ \A u \in Tenants : lastContribution[u] \in Int
      /\ lastContribution \in [Tenants -> Times \cup {Never}]
  BY DEF IInv, Shape, Times, Never
<1>6. DOMAIN old = 1 .. n
  BY <1>1
<1>7. /\ \A i \in 1 .. n :
            (\A k \in i + 1 .. n : old[k].tenant = old[i].tenant => ~old[k].forced)
            => old[i].time <= lastContribution[old[i].tenant]
      /\ \A i, j \in 1 .. n :
            /\ i < j /\ old[j].tenant = old[i].tenant
            /\ \A k \in i + 1 .. j : old[k].tenant = old[i].tenant => ~old[k].forced
            => old[j].time >= old[i].time + ContributionInterval
  BY <1>1, <1>6 DEF IInv, LastNoted, ContributionsSpaced
<1>8. /\ contributions \in [Aggregators -> Seq(Contribution)]
  BY DEF IInv, Shape, Contribution
<1> HIDE DEF new, old, a, n
<1>9. /\ list \in Seq(Contribution) /\ Len(list) = n + 1 /\ DOMAIN list = 1 .. n + 1
      /\ \A i \in 1 .. n : list[i] = old[i]
      /\ list[n + 1] = new
  <2>1. list \in Seq(Contribution) /\ Len(list) = n + 1
    BY <1>1 DEF n
  <2>2. \A i \in 1 .. n : list[i] = old[i]
    BY <1>1 DEF n
  <2>3. list[n + 1] = new
    BY <1>1 DEF n
  <2> HIDE DEF list
  <2>4. DOMAIN list = 1 .. n + 1
    BY <2>1
  <2>5. QED
    BY <2>1, <2>2, <2>3, <2>4
<1> HIDE DEF list
<1>10. /\ contributions' \in [Aggregators -> Seq(Contribution)]
       /\ lastContribution' \in [Tenants -> Times \cup {Never}]
  BY <1>1, <1>3, <1>5, <1>8, <1>9
<1>11. /\ contributions'[a] = list
       /\ \A b \in Aggregators \ {a} : contributions'[b] = contributions[b]
       /\ lastContribution'[t] = clock
       /\ \A u \in Tenants \ {t} : lastContribution'[u] = lastContribution[u]
  BY <1>1, <1>3, <1>5, <1>8
<1>12. ASSUME NEW i \in 1 .. n, old[i].tenant = t, ~force,
              \A k \in i + 1 .. n : old[k].tenant = t => ~old[k].forced
       PROVE  clock >= old[i].time + ContributionInterval
  <2>1. old[i].time <= lastContribution[t] /\ old[i].time \in Nat
        /\ lastContribution[t] \in Int
    BY <1>4, <1>5, <1>7, <1>12
  <2>2. lastContribution[t] # Never
    BY <2>1 DEF Never
  <2>3. clock - lastContribution[t] >= ContributionInterval
    BY <1>3, <1>12, <2>2 DEF Due
  <2>4. QED
    BY <1>1, <2>1, <2>3
<1>13. ASSUME NEW i \in 1 .. n, NEW j \in 1 .. n,
              \A k \in i + 1 .. j : list[k].tenant = list[i].tenant => ~list[k].forced
       PROVE  \A k \in i + 1 .. j : old[k].tenant = old[i].tenant => ~old[k].forced
  <2> SUFFICES ASSUME NEW k \in i + 1 .. j PROVE old[k].tenant = old[i].tenant => ~old[k].forced
    OBVIOUS
  <2>1. k \in 1 .. n
    BY <1>1
  <2>2. list[k] = old[k] /\ list[i] = old[i]
    BY <1>9, <2>1
  <2>3. QED
    BY <1>13, <2>2
<1>14. Belong'
  <2> SUFFICES ASSUME NEW b \in Aggregators, NEW i \in DOMAIN contributions'[b]
               PROVE  AggregatorOf[contributions'[b][i].tenant] = b
    BY DEF Belong
  <2>1. CASE b # a
    BY <1>11, <2>1 DEF IInv, Belong
  <2>2. CASE b = a /\ i = n + 1
    BY <1>2, <1>9, <1>11, <2>2 DEF a
  <2>3. CASE b = a /\ i # n + 1
    <3>1. i \in 1 .. n
      BY <1>1, <1>9, <1>11, <2>3
    <3>2. AggregatorOf[old[i].tenant] = a
      BY <1>1, <1>6, <3>1 DEF IInv, Belong, old
    <3>3. QED
      BY <1>9, <1>11, <2>3, <3>1, <3>2
  <2>4. QED
    BY <2>1, <2>2, <2>3
<1>15. LastNoted'
  <2> SUFFICES ASSUME NEW b \in Aggregators, NEW i \in DOMAIN contributions'[b],
                      \A k \in i + 1 .. Len(contributions'[b]) :
                         contributions'[b][k].tenant = contributions'[b][i].tenant
                         => ~contributions'[b][k].forced
               PROVE  contributions'[b][i].time
                        <= lastContribution'[contributions'[b][i].tenant]
    BY DEF LastNoted
  <2>1. CASE b # a
    <3>1. contributions'[b] = contributions[b]
      BY <1>11, <2>1
    <3>2. AggregatorOf[contributions[b][i].tenant] = b
      BY <3>1 DEF IInv, Belong
    <3>3. contributions[b][i].tenant # t
      BY <2>1, <3>2 DEF a
    <3>4. contributions[b][i].tenant \in Tenants
      <4>1. contributions[b] \in Seq(Contribution) /\ i \in DOMAIN contributions[b]
        BY <1>8, <3>1
      <4>2. contributions[b][i] \in Contribution
        BY <4>1
      <4>3. QED
        BY <4>2 DEF Contribution
    <3>5. contributions[b][i].time <= lastContribution[contributions[b][i].tenant]
      BY <3>1 DEF IInv, LastNoted
    <3>6. QED
      BY <1>11, <3>1, <3>3, <3>4, <3>5
  <2>2. CASE b = a /\ i = n + 1
    <3>1. contributions'[b][i] = new
      BY <1>9, <1>11, <2>2
    <3>2. QED
      BY <1>1, <1>2, <1>11, <3>1
  <2>3. CASE b = a /\ i # n + 1
    <3>1. i \in 1 .. n /\ list[i] = old[i] /\ contributions'[b] = list
      BY <1>1, <1>9, <1>11, <2>3
    <3>2. \A k \in i + 1 .. n + 1 : list[k].tenant = list[i].tenant => ~list[k].forced
      BY <1>9, <3>1
    <3>3. n \in 1 .. n /\ \A k \in i + 1 .. n : list[k].tenant = list[i].tenant
                                                => ~list[k].forced
      BY <1>1, <3>1, <3>2
    <3>4. \A k \in i + 1 .. n : old[k].tenant = old[i].tenant => ~old[k].forced
      BY <1>13, <3>1, <3>3
    <3>5. old[i].time <= lastContribution[old[i].tenant] /\ old[i].tenant \in Tenants
      BY <1>4, <1>7, <3>1, <3>4
    <3>6. CASE old[i].tenant # t
      BY <1>11, <3>1, <3>5, <3>6
    <3>7. CASE old[i].tenant = t
      <4>1. n + 1 \in i + 1 .. n + 1
        BY <1>1, <3>1
      <4>2. ~force
        BY <1>2, <1>9, <3>1, <3>2, <3>7, <4>1
      <4>3. clock >= old[i].time + ContributionInterval
        BY <1>12, <3>1, <3>4, <3>7, <4>2
      <4>4. old[i].time <= clock
        BY <1>1, <1>4, <3>1, <4>3
      <4>5. QED
        BY <1>11, <3>1, <3>7, <4>4
    <3>8. QED
      BY <3>6, <3>7
  <2>4. QED
    BY <2>1, <2>2, <2>3
<1>16. ContributionsSpaced'
  <2> SUFFICES ASSUME NEW b \in Aggregators, NEW i \in DOMAIN contributions'[b],
                      NEW j \in DOMAIN contributions'[b], i < j,
                      contributions'[b][j].tenant = contributions'[b][i].tenant,
                      \A k \in i + 1 .. j :
                         contributions'[b][k].tenant = contributions'[b][i].tenant
                         => ~contributions'[b][k].forced
               PROVE  contributions'[b][j].time
                        >= contributions'[b][i].time + ContributionInterval
    BY DEF ContributionsSpaced
  <2>1. CASE b # a
    BY <1>11, <2>1 DEF IInv, ContributionsSpaced
  <2>2. CASE b = a
    <3>1. /\ contributions'[b] = list /\ i \in 1 .. n + 1 /\ j \in 1 .. n + 1
          /\ i \in 1 .. n /\ list[i] = old[i]
      BY <1>1, <1>9, <1>11, <2>2
    <3>2. \A k \in i + 1 .. j : list[k].tenant = list[i].tenant => ~list[k].forced
      BY <3>1
    <3>3. CASE j # n + 1
      <4>1. j \in 1 .. n /\ list[j] = old[j]
        BY <1>1, <1>9, <3>1, <3>3
      <4>2. \A k \in i + 1 .. j : old[k].tenant = old[i].tenant => ~old[k].forced
        BY <1>13, <3>1, <3>2, <4>1
      <4>3. QED
        BY <1>7, <3>1, <4>1, <4>2
    <3>4. CASE j = n + 1
      <4>1. list[j] = new /\ old[i].tenant = t
        BY <1>2, <1>9, <3>1, <3>4
      <4>2. j \in i + 1 .. j
        BY <1>1, <3>1
      <4>3. ~force
        BY <1>2, <3>1, <3>2, <4>1, <4>2
      <4>4. n \in 1 .. n /\ \A k \in i + 1 .. n : list[k].tenant = list[i].tenant
                                                  => ~list[k].forced
        BY <1>1, <3>1, <3>2, <3>4
      <4>5. \A k \in i + 1 .. n : old[k].tenant = old[i].tenant => ~old[k].forced
        BY <1>13, <3>1, <4>4
      <4>6. clock >= old[i].time + ContributionInterval
        BY <1>12, <3>1, <4>1, <4>3, <4>5
      <4>7. QED
        BY <1>2, <3>1, <4>1, <4>6
    <3>5. QED
      BY <3>3, <3>4
  <2>3. QED
    BY <2>1, <2>2
<1>17. QED
  BY <1>10, <1>14, <1>15, <1>16

------------------------------------------------------------------------------
LEMMA InitInv == Init => IInv
<1> SUFFICES ASSUME Init PROVE IInv
  OBVIOUS
<1>1. Shape
  BY DEF Init, Shape, Times, Never
<1>2. /\ \A r \in Repositories : patterns[r] = <<>> /\ evicted[r] = {}
      /\ \A a \in Aggregators : contributions[a] = <<>>
  BY DEF Init
<1>3. InOrder /\ Full /\ NewestKept
  BY <1>2 DEF InOrder, Full, NewestKept
<1>4. Belong /\ LastNoted /\ ContributionsSpaced
  BY <1>2 DEF Belong, LastNoted, ContributionsSpaced
<1>5. QED
  BY <1>1, <1>3, <1>4 DEF IInv

LEMMA ContributionsStay ==
    ASSUME IInv, UNCHANGED <<contributions, lastContribution>>
    PROVE  /\ contributions' \in [Aggregators -> Seq(Contribution)]
           /\ lastContribution' \in [Tenants -> Times \cup {Never}]
           /\ Belong' /\ LastNoted' /\ ContributionsSpaced'
<1>1. /\ contributions' \in [Aggregators -> Seq(Contribution)]
      /\ lastContribution' \in [Tenants -> Times \cup {Never}]
  BY DEF IInv, Shape, Contribution
<1>2. Belong' /\ LastNoted'
  BY DEF IInv, Belong, LastNoted
<1>3. ContributionsSpaced'
  BY DEF IInv, ContributionsSpaced
<1>4. QED
  BY <1>1, <1>2, <1>3

LEMMA StepInv == IInv /\ [Next]_vars => IInv'
<1> SUFFICES ASSUME IInv, [Next]_vars PROVE IInv'
  OBVIOUS
<1>1. ASSUME NEW t \in Tenants, NEW force \in BOOLEAN, Contribute(t, force) PROVE IInv'
  <2>1. UNCHANGED patternVars /\ UNCHANGED lastSync
        /\ clock' \in Times /\ setBacks' \in 0 .. MaxSetBacks
    BY <1>1, MeanwhileIs DEF Contribute, patternVars
  <2>2. /\ contributions' \in [Aggregators -> Seq(Contribution)]
        /\ lastContribution' \in [Tenants -> Times \cup {Never}]
        /\ Belong' /\ LastNoted' /\ ContributionsSpaced'
    BY <1>1, ContributeInv
  <2>3. Shape'
    BY <2>1, <2>2, PatternsStay DEF IInv, Shape, Contribution
  <2>4. QED
    BY <2>1, <2>2, <2>3, PatternsStay DEF IInv
<1>2. ASSUME NEW t \in Tenants, NEW force \in BOOLEAN, Sync(t, force) PROVE IInv'
  <2>1. /\ UNCHANGED <<contributions, lastContribution>>
        /\ clock' \in Times /\ setBacks' \in 0 .. MaxSetBacks
        /\ lastSync' = [lastSync EXCEPT ![t] = clock]
        /\ Ingest(RepositoryOf[t]) \/ UNCHANGED patternVars
    BY <1>2, MeanwhileIs DEF Sync, patternVars
  <2>2. /\ patterns' \in [Repositories -> Seq(Pattern)]
        /\ ingested' \in [Repositories -> Nat]
        /\ evicted' \in [Repositories -> SUBSET Pattern]
        /\ InOrder' /\ Full' /\ NewestKept'
    <3>1. RepositoryOf[t] \in Repositories
      OBVIOUS
    <3>2. QED
      BY <2>1, <3>1, IngestInv, PatternsStay
  <2>3. lastSync' \in [Tenants -> Times \cup {Never}]
    BY <2>1 DEF IInv, Shape
  <2>4. Shape'
    BY <2>1, <2>2, <2>3, ContributionsStay DEF IInv, Shape, Contribution
  <2>5. QED
    BY <2>1, <2>2, <2>4, ContributionsStay DEF IInv
<1>3. ASSUME UNCHANGED <<contributions, lastContribution, lastSync>>, UNCHANGED patternVars,
             clock' \in Times, setBacks' \in 0 .. MaxSetBacks
      PROVE  IInv'
  <2>1. Shape'
    BY <1>3, PatternsStay, ContributionsStay DEF IInv, Shape, Contribution
  <2>2. QED
    BY <1>3, <2>1, PatternsStay, ContributionsStay DEF IInv
<1>4. CASE ClockMoves
  <2>1. clock' \in Times /\ setBacks' \in 0 .. MaxSetBacks
    BY <1>4, MeanwhileIs DEF ClockMoves
  <2>2. QED
    BY <1>3, <1>4, <2>1 DEF ClockMoves, patternVars
<1>5. CASE UNCHANGED vars
  <2>1. clock' \in Times /\ setBacks' \in 0 .. MaxSetBacks
    BY <1>5 DEF vars, IInv, Shape
  <2>2. QED
    BY <1>3, <1>5, <2>1 DEF vars, patternVars
<1>6. QED
  BY <1>1, <1>2, <1>4, <1>5 DEF Next

LEMMA Invariance == Spec => []IInv
BY InitInv, StepInv, PTL DEF Spec

------------------------------------------------------------------------------
(* The state is well formed, and no repository exceeds its limit (ingest). *)
THEOREM TypeCorrect == Spec => []TypeOK
<1>1. IInv => TypeOK
  BY DEF IInv, Shape, InOrder, Full, TypeOK
<1>2. QED
  BY <1>1, Invariance, PTL

(* However the clock is set, a repository keeps the newest patterns by the *)
(* times they carry (ingest).                                              *)
THEOREM NewestStay == Spec => []NewestKept
<1>1. IInv => NewestKept
  BY DEF IInv
<1>2. QED
  BY <1>1, Invariance, PTL

(* However the clock is set, what is not forced was due the interval after *)
(* what the tenant contributed since the last forced one (contribute).     *)
THEOREM SpacedOnAnyClock == Spec => []ContributionsSpaced
<1>1. IInv => ContributionsSpaced
  BY DEF IInv
<1>2. QED
  BY <1>1, Invariance, PTL

==============================================================================
