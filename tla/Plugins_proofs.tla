---------------------------- MODULE Plugins_proofs ----------------------------
(***************************************************************************)
(* Proofs about the plugins, for any plugins, handlers and files, and any  *)
(* depth of calls within calls.                                            *)
(***************************************************************************)
EXTENDS Plugins, FiniteSetTheorems, SequenceTheorems, WellFoundedInduction, TLAPS

(* The least of some numbers.                                              *)
Less == OpToRel(<, Nat)

LEMMA LeastExists ==
    ASSUME NEW T, T \subseteq Nat, T # {}
    PROVE  \E x \in T : \A y \in T : x <= y
<1>1. IsWellFoundedOn(Less, Nat)
  BY NatLessThanWellFounded DEF Less
<1>2. PICK x \in T : \A y \in T : ~ (<<y, x>> \in Less)
  BY <1>1, WFMin
<1>3. \A y \in T : ~ (<<y, x>> \in {ss \in Nat \X Nat : ss[1] < ss[2]})
  BY <1>2 DEF OpToRel, Less
<1>4. ASSUME NEW y \in T PROVE x <= y
  <2>1. <<y, x>> \in Nat \X Nat /\ <<y, x>>[1] = y /\ <<y, x>>[2] = x
    OBVIOUS
  <2>2. ~ (y < x)
    BY <1>3, <2>1
  <2> QED BY <2>1, <2>2
<1> QED BY <1>4

------------------------------------------------------------------------------
(* The entries of a dictionary, and those of them no two of which have one *)
(* name.                                                                   *)
Dictionaries == Seq(PluginObjects \cup {"gone"})

Apart(s) ==
    \A i, j \in DOMAIN s :
        s[i] # "gone" /\ s[j] # "gone" /\ NameOf[s[i]] = NameOf[s[j]] => i = j

(* What the nth entry makes of those that were left before it.             *)
Leaves(s, n, left) == IF s[n] = "gone" THEN left ELSE Append(left, s[n])

(* The function by which Compact is computed: it exists.                   *)
Computes(s, m, f) ==
    f = [n \in 0 .. m |-> IF n = 0 THEN <<>> ELSE Leaves(s, n, f[n - 1])]

LEMMA CompactComputed ==
    ASSUME NEW s \in Dictionaries
    PROVE  \E f : Computes(s, Len(s), f) /\ Compact(s) = f[Len(s)]
<1> DEFINE Bad == {m \in Nat : ~ \E f : Computes(s, m, f)}
<1>1. ASSUME Bad # {} PROVE FALSE
  <2>1. PICK m \in Bad : \A k \in Bad : m <= k
    <3>1. Bad \subseteq Nat
      OBVIOUS
    <3> HIDE DEF Bad
    <3> QED BY <1>1, <3>1, LeastExists
  <2>2. CASE m = 0
    <3>1. Computes(s, 0, [n \in 0 .. 0 |-> <<>>])
      BY DEF Computes
    <3> QED BY <2>1, <2>2, <3>1
  <2>3. CASE m # 0
    <3>1. m \in Nat /\ m - 1 \in Nat /\ m - 1 \notin Bad
      BY <2>1, <2>3
    <3>2. PICK g : Computes(s, m - 1, g)
      BY <3>1
    <3> DEFINE h == [n \in 0 .. m |-> IF n = m THEN Leaves(s, m, g[m - 1]) ELSE g[n]]
    <3>3. ASSUME NEW n \in 0 .. m
          PROVE  h[n] = IF n = 0 THEN <<>> ELSE Leaves(s, n, h[n - 1])
      <4>1. CASE n = 0
        BY <2>3, <3>1, <3>2, <4>1 DEF Computes
      <4>2. CASE n = m
        <5>1. h[m - 1] = g[m - 1] /\ h[m] = Leaves(s, m, g[m - 1])
          BY <3>1
        <5> QED BY <2>3, <4>2, <5>1
      <4>3. CASE n # 0 /\ n # m
        <5>1. n \in 0 .. m - 1 /\ n - 1 \in 0 .. m /\ n - 1 # m
          BY <3>1, <4>3
        <5>2. h[n] = g[n] /\ h[n - 1] = g[n - 1]
          BY <4>3, <5>1
        <5>3. g[n] = Leaves(s, n, g[n - 1])
          BY <3>2, <4>3, <5>1 DEF Computes
        <5> QED BY <4>3, <5>2, <5>3
      <4> QED BY <4>1, <4>2, <4>3
    <3>4. Computes(s, m, h)
      <4>1. h = [n \in 0 .. m |-> h[n]]
        OBVIOUS
      <4> HIDE DEF h
      <4> QED BY <3>3, <4>1, Zenon DEF Computes
    <3> QED BY <2>1, <3>4
  <2> QED BY <2>2, <2>3
<1>2. Len(s) \in Nat
  BY DEF Dictionaries
<1>3. \E f : Computes(s, Len(s), f)
  BY <1>1, <1>2
<1>4. Compact(s) = (CHOOSE f : Computes(s, Len(s), f))[Len(s)]
  BY DEF Compact, Computes, Leaves
<1>5. Computes(s, Len(s), CHOOSE f : Computes(s, Len(s), f))
  BY <1>3
<1> QED BY <1>4, <1>5

(* What is known of what is left of the first n.                           *)
LeftOf(s, n, left) ==
    /\ left \in Seq(PluginObjects)
    /\ \A j \in DOMAIN left : \E i \in 1 .. n : s[i] # "gone" /\ left[j] = s[i]
    /\ Apart(s) => Apart(left)

LEMMA LeftStep ==
    ASSUME NEW s \in Dictionaries, NEW n \in DOMAIN s, NEW left, LeftOf(s, n - 1, left)
    PROVE  LeftOf(s, n, Leaves(s, n, left))
<1>1. n \in Nat /\ n >= 1 /\ n <= Len(s) /\ Len(s) \in Nat /\ DOMAIN s = 1 .. Len(s)
  BY DEF Dictionaries
<1>2. left \in Seq(PluginObjects) /\ s[n] \in PluginObjects \cup {"gone"}
  BY DEF LeftOf, Dictionaries
<1>3. 1 .. n = (1 .. n - 1) \cup {n}
  BY <1>1
<1>4. CASE s[n] = "gone"
  BY <1>1, <1>3, <1>4 DEF LeftOf, Leaves
<1>5. CASE s[n] # "gone"
  <2> DEFINE more == Append(left, s[n])
  <2>1. /\ more \in Seq(PluginObjects)
        /\ DOMAIN more = DOMAIN left \cup {Len(left) + 1}
        /\ \A j \in DOMAIN left : more[j] = left[j]
        /\ more[Len(left) + 1] = s[n]
    BY <1>2, <1>5
  <2> HIDE DEF more
  <2>2. \A j \in DOMAIN more : \E i \in 1 .. n : s[i] # "gone" /\ more[j] = s[i]
    <3>1. ASSUME NEW j \in DOMAIN left
          PROVE  \E i \in 1 .. n : s[i] # "gone" /\ more[j] = s[i]
      <4>1. PICK i \in 1 .. n - 1 : s[i] # "gone" /\ left[j] = s[i]
        BY DEF LeftOf
      <4> QED BY <1>3, <2>1, <4>1
    <3>2. n \in 1 .. n
      BY <1>1
    <3> QED BY <1>5, <2>1, <3>1, <3>2
  <2>3. ASSUME Apart(s) PROVE Apart(more)
    <3>1. \A j \in DOMAIN left : NameOf[left[j]] # NameOf[s[n]]
      <4> SUFFICES ASSUME NEW j \in DOMAIN left PROVE NameOf[left[j]] # NameOf[s[n]]
        OBVIOUS
      <4>1. PICK i \in 1 .. n - 1 : s[i] # "gone" /\ left[j] = s[i]
        BY DEF LeftOf
      <4>2. i \in DOMAIN s /\ i # n
        BY <1>1
      <4> QED BY <1>5, <2>3, <4>1, <4>2 DEF Apart
    <3>2. Apart(left)
      BY <2>3 DEF LeftOf
    <3> QED BY <2>1, <3>1, <3>2 DEF Apart
  <2> QED BY <1>5, <2>1, <2>2, <2>3 DEF LeftOf, Leaves, more
<1> QED BY <1>4, <1>5

(* A dictionary that is compacted has lost nothing but deleted entries'    *)
(* places.                                                                 *)
LEMMA CompactIs ==
    ASSUME NEW s \in Dictionaries
    PROVE  LeftOf(s, Len(s), Compact(s))
<1>1. PICK f : Computes(s, Len(s), f) /\ Compact(s) = f[Len(s)]
  BY CompactComputed
<1>2. Len(s) \in Nat /\ DOMAIN s = 1 .. Len(s)
  BY DEF Dictionaries
<1> DEFINE Bad == {n \in 0 .. Len(s) : ~ LeftOf(s, n, f[n])}
<1>3. ASSUME Bad # {} PROVE FALSE
  <2>1. PICK n \in Bad : \A k \in Bad : n <= k
    <3>1. Bad \subseteq Nat
      BY <1>2
    <3> HIDE DEF Bad
    <3> QED BY <1>3, <3>1, LeastExists
  <2>2. CASE n = 0
    <3>1. f[0] = <<>>
      BY <1>1, <1>2 DEF Computes
    <3>2. LeftOf(s, 0, <<>>)
      BY DEF LeftOf, Apart
    <3> QED BY <2>1, <2>2, <3>1, <3>2
  <2>3. CASE n # 0
    <3>1. n - 1 \in 0 .. Len(s) /\ n \in DOMAIN s /\ n - 1 \notin Bad
      BY <1>2, <2>1, <2>3
    <3>2. LeftOf(s, n - 1, f[n - 1])
      BY <3>1
    <3>3. f[n] = Leaves(s, n, f[n - 1])
      BY <1>1, <1>2, <2>1, <2>3 DEF Computes
    <3>4. LeftOf(s, n, f[n])
      BY <3>1, <3>2, <3>3, LeftStep
    <3> QED BY <2>1, <3>4
  <2> QED BY <2>2, <2>3
<1>4. LeftOf(s, Len(s), f[Len(s)])
  BY <1>2, <1>3
<1> QED BY <1>1, <1>4
------------------------------------------------------------------------------
(* What the loops under way are.                                           *)

(* Only a loop over files goes on without a handler, and there is always   *)
(* room for one call more above it.                                        *)
StackOK(s) ==
    /\ s \in Seq(Frames)
    /\ \A i \in DOMAIN s :
          /\ i < Len(s) => s[i].running \/ s[i].kind = "load"
          /\ s[i].kind = "load" => i < MaxDepth

(* A call may be put on top.                                               *)
Ready(s) == s # <<>> => Last(s).running \/ Last(s).kind = "load"

LoopIn(s) == \E i \in DOMAIN s : s[i].kind = "execute"

(* Of the loops over the entries, t has none that s has not.               *)
Old(s, t) ==
    /\ Len(t) \in Nat
    /\ \A i \in DOMAIN t : t[i].kind # "execute" \/ (i \in DOMAIN s /\ t[i] = s[i])

LEMMA PushIs ==
    ASSUME NEW s, StackOK(s), Ready(s), NEW f \in Frames,
           f.kind = "load" => Len(s) + 1 < MaxDepth
    PROVE  /\ StackOK(Append(s, f)) /\ Len(Append(s, f)) = Len(s) + 1
           /\ Last(Append(s, f)) = f
           /\ \A i \in DOMAIN s : i \in DOMAIN Append(s, f) /\ Append(s, f)[i] = s[i]
           /\ DOMAIN Append(s, f) = DOMAIN s \cup {Len(s) + 1}
<1> DEFINE t == Append(s, f)
<1>1. s \in Seq(Frames) /\ Len(s) \in Nat /\ DOMAIN s = 1 .. Len(s)
  BY DEF StackOK
<1>2. /\ t \in Seq(Frames) /\ Len(t) = Len(s) + 1
      /\ DOMAIN t = DOMAIN s \cup {Len(s) + 1}
      /\ \A i \in DOMAIN s : t[i] = s[i]
      /\ t[Len(s) + 1] = f
  BY <1>1
<1> HIDE DEF t
<1>3. ASSUME NEW i \in DOMAIN t
      PROVE  /\ i < Len(t) => t[i].running \/ t[i].kind = "load"
             /\ t[i].kind = "load" => i < MaxDepth
  <2>1. CASE i = Len(s) + 1
    BY <1>2, <2>1
  <2>2. CASE i \in DOMAIN s /\ i < Len(s)
    BY <1>2, <2>2 DEF StackOK
  <2>3. CASE i \in DOMAIN s /\ i = Len(s)
    <3>1. s # <<>>
      BY <1>1, <2>3
    <3>2. t[i] = s[Len(s)]
      BY <1>2, <2>3
    <3>3. t[i].running \/ t[i].kind = "load"
      BY <3>1, <3>2 DEF Ready, Last
    <3> QED BY <1>2, <2>3, <3>3 DEF StackOK
  <2> QED BY <1>1, <1>2, <2>1, <2>2, <2>3
<1>4. StackOK(t) /\ Last(t) = f
  BY <1>2, <1>3 DEF StackOK, Last
<1> QED BY <1>2, <1>4 DEF t

LEMMA FrontIs ==
    ASSUME NEW s, StackOK(s), s # <<>>
    PROVE  /\ StackOK(Front(s)) /\ Ready(Front(s)) /\ Len(Front(s)) = Len(s) - 1
           /\ DOMAIN Front(s) = 1 .. Len(s) - 1
           /\ \A i \in 1 .. Len(s) - 1 : i \in DOMAIN s /\ Front(s)[i] = s[i]
           /\ Old(s, Front(s))
<1> DEFINE t == Front(s)
<1>1. s \in Seq(Frames) /\ Len(s) \in Nat /\ DOMAIN s = 1 .. Len(s) /\ Len(s) >= 1
  BY DEF StackOK
<1>2. /\ t \in Seq(Frames) /\ Len(t) = Len(s) - 1
      /\ \A i \in 1 .. Len(s) - 1 : t[i] = s[i]
  BY <1>1, SubSeqProperties DEF Front
<1>3. Len(t) \in Nat /\ DOMAIN t = 1 .. Len(s) - 1
  BY <1>1, <1>2
<1> HIDE DEF t
<1>4. \A i \in 1 .. Len(s) - 1 : i \in DOMAIN s /\ t[i] = s[i]
  BY <1>1, <1>2
<1>5. ASSUME NEW i \in DOMAIN t
      PROVE  /\ t[i].running \/ t[i].kind = "load"
             /\ t[i].kind = "load" => i < MaxDepth
  <2>1. i \in DOMAIN s /\ t[i] = s[i] /\ i < Len(s)
    BY <1>1, <1>3, <1>4
  <2> QED BY <2>1 DEF StackOK
<1>6. Ready(t)
  <2> SUFFICES ASSUME t # <<>> PROVE t[Len(t)].running \/ t[Len(t)].kind = "load"
    BY DEF Ready, Last
  <2>1. Len(t) \in DOMAIN t
    BY <1>2, <1>3
  <2> QED BY <1>5, <2>1
<1>7. StackOK(t)
  BY <1>2, <1>5 DEF StackOK
<1>8. Old(s, t)
  BY <1>1, <1>3, <1>4 DEF Old
<1> QED BY <1>2, <1>3, <1>4, <1>6, <1>7, <1>8 DEF t

LEMMA TopIs ==
    ASSUME NEW s, StackOK(s), s # <<>>
    PROVE  /\ Last(s) \in Frames /\ Last(s) = s[Len(s)] /\ Len(s) \in DOMAIN s
           /\ Len(s) \in Nat \ {0} /\ DOMAIN s = 1 .. Len(s)
<1>1. s \in Seq(Frames) /\ Len(s) \in Nat /\ DOMAIN s = 1 .. Len(s) /\ Len(s) >= 1
  BY DEF StackOK
<1> QED BY <1>1 DEF Last

LEMMA ReplaceIs ==
    ASSUME NEW s, StackOK(s), s # <<>>, NEW f \in Frames, f.kind = Last(s).kind
    PROVE  LET t == [s EXCEPT ![Len(s)] = f]
           IN  /\ StackOK(t) /\ Len(t) = Len(s) /\ DOMAIN t = DOMAIN s
               /\ t[Len(s)] = f /\ Last(t) = f
               /\ \A i \in DOMAIN s : i # Len(s) => t[i] = s[i]
               /\ \A i \in DOMAIN s : t[i].kind = s[i].kind
<1> DEFINE t == [s EXCEPT ![Len(s)] = f]
<1>1. s \in Seq(Frames) /\ Len(s) \in DOMAIN s /\ Last(s) = s[Len(s)]
  BY TopIs DEF StackOK
<1>2. /\ t \in Seq(Frames) /\ Len(t) = Len(s) /\ DOMAIN t = DOMAIN s
      /\ t[Len(s)] = f
      /\ \A i \in DOMAIN s : i # Len(s) => t[i] = s[i]
  BY <1>1
<1> HIDE DEF t
<1>3. \A i \in DOMAIN s : t[i].kind = s[i].kind
  BY <1>1, <1>2
<1>4. StackOK(t)
  <2>1. ASSUME NEW i \in DOMAIN t
        PROVE  /\ i < Len(t) => t[i].running \/ t[i].kind = "load"
               /\ t[i].kind = "load" => i < MaxDepth
    <3>1. i \in DOMAIN s /\ t[i].kind = s[i].kind /\ (i # Len(s) => t[i] = s[i])
      BY <1>2, <1>3
    <3>2. i \in Nat /\ Len(s) \in Nat
      BY <1>1, <3>1
    <3> QED BY <1>2, <3>1, <3>2 DEF StackOK
  <2> QED BY <1>2, <2>1 DEF StackOK
<1> QED BY <1>2, <1>3, <1>4 DEF t, Last

(* What the loops under way see of a change.                               *)
LEMMA SeenIs ==
    ASSUME NEW s, StackOK(s), NEW still
    PROVE  /\ StackOK(Seen(s, still)) /\ Len(Seen(s, still)) = Len(s)
           /\ DOMAIN Seen(s, still) = DOMAIN s
           /\ Ready(s) => Ready(Seen(s, still))
           /\ LoopIn(s) <=> LoopIn(Seen(s, still))
           /\ \A i \in DOMAIN s : Seen(s, still)[i] = [s[i] EXCEPT !.due = @ \cap still]
<1> DEFINE t == Seen(s, still)
<1>1. s \in Seq(Frames) /\ Len(s) \in Nat /\ DOMAIN s = 1 .. Len(s)
  BY DEF StackOK
<1>2. t = [i \in DOMAIN s |-> [s[i] EXCEPT !.due = @ \cap still]]
  BY DEF Seen
<1>3. \A i \in DOMAIN s : t[i] = [s[i] EXCEPT !.due = @ \cap still]
  BY <1>2
<1>4. ASSUME NEW f \in Frames
      PROVE  /\ [f EXCEPT !.due = @ \cap still] \in Frames
             /\ [f EXCEPT !.due = @ \cap still].kind = f.kind
             /\ [f EXCEPT !.due = @ \cap still].running = f.running
  BY DEF Frames
<1>5. ASSUME NEW i \in DOMAIN s
      PROVE  t[i] \in Frames /\ t[i].kind = s[i].kind /\ t[i].running = s[i].running
  <2>1. s[i] \in Frames
    BY <1>1
  <2>2. t[i] = [s[i] EXCEPT !.due = @ \cap still]
    BY <1>3
  <2> HIDE DEF t
  <2> QED BY <1>4, <2>1, <2>2
<1>6. t \in Seq(Frames) /\ Len(t) = Len(s) /\ DOMAIN t = DOMAIN s
  <2>1. t \in [1 .. Len(s) -> Frames]
    BY <1>1, <1>2, <1>5
  <2> HIDE DEF t
  <2> QED BY <1>1, <2>1
<1> HIDE DEF t
<1>7. StackOK(t)
  BY <1>1, <1>5, <1>6 DEF StackOK
<1>8. Ready(s) => Ready(t)
  BY <1>1, <1>5, <1>6 DEF Ready, Last
<1>9. LoopIn(s) <=> LoopIn(t)
  BY <1>5, <1>6 DEF LoopIn
<1> QED BY <1>3, <1>6, <1>7, <1>8, <1>9 DEF t

(* _call_hooks puts a loop over a plugin's handlers on top, or nothing.    *)
LEMMA CallHooksIs ==
    ASSUME NEW s, StackOK(s), Ready(s), NEW p \in PluginObjects, NEW h \in Lifecycle
    PROVE  LET t == CallHooks(s, p, h)
           IN  /\ StackOK(t) /\ Old(s, t)
               /\ LoopIn(s) => LoopIn(t)
               /\ t = s \/ /\ Len(t) = Len(s) + 1 /\ Last(t).hook = h
                           /\ Last(t).plugin = p
<1> DEFINE f == Frame("lifecycle", h, p)
<1>1. f \in Frames /\ f.kind = "lifecycle" /\ f.hook = h /\ f.plugin = p
  BY DEF Frame, Frames
<1>2. s \in Seq(Frames) /\ Len(s) \in Nat /\ DOMAIN s = 1 .. Len(s)
  BY DEF StackOK
<1> HIDE DEF f
<1>3. CallHooks(s, p, h) = s \/ CallHooks(s, p, h) = Append(s, f)
  BY DEF CallHooks, f
<1>4. CASE CallHooks(s, p, h) = s
  BY <1>2, <1>4 DEF Old
<1>5. CASE CallHooks(s, p, h) = Append(s, f)
  <2> DEFINE t == Append(s, f)
  <2>1. /\ StackOK(t) /\ Len(t) = Len(s) + 1 /\ Last(t) = f
        /\ \A i \in DOMAIN s : i \in DOMAIN t /\ t[i] = s[i]
        /\ DOMAIN t = DOMAIN s \cup {Len(s) + 1}
    BY <1>1, PushIs
  <2>2. t[Len(s) + 1] = f
    BY <2>1 DEF Last
  <2> HIDE DEF t
  <2>3. Old(s, t)
    BY <1>1, <1>2, <2>1, <2>2 DEF Old
  <2>4. LoopIn(s) => LoopIn(t)
    BY <2>1 DEF LoopIn
  <2> QED BY <1>1, <1>5, <2>1, <2>3, <2>4 DEF t
<1> QED BY <1>3, <1>4, <1>5

------------------------------------------------------------------------------
(* The inductive invariant.                                                *)

(* A plugin that a loop still has to visit is enabled, and it is the one   *)
(* being visited or among the entries ahead; the dictionary has the size   *)
(* that it had when the loop began.                                        *)
Ahead(p, at) == \E j \in Entries : j > at /\ slots[j] = p

DueOf(f) ==
    f.kind = "execute" /\ f.due # {} =>
        /\ f.size = Cardinality(Entries) /\ f.due \subseteq enabled
        /\ \A p \in f.due : p = f.plugin \/ Ahead(p, f.at)

DueOK == \A i \in DOMAIN stack : DueOf(stack[i])

(* Whoever is registered is still owed a shutdown.                         *)
SlotsOK ==
    /\ slots \in Dictionaries /\ Apart(slots)
    /\ \A i \in DOMAIN slots : slots[i] = "gone" => LoopIn(stack)
    /\ owed \subseteq PluginObjects /\ enabled \subseteq PluginObjects
    /\ Registered \subseteq owed

IInv == StackOK(stack) /\ Len(stack) <= MaxDepth /\ SlotsOK /\ DueOK

(* Who is owed a shutdown was made.                                        *)
MadeOK == made \subseteq HaveName /\ owed \subseteq made

LEMMA InvGivesTypeOK == IInv /\ MadeOK => TypeOK
<1> SUFFICES ASSUME IInv, MadeOK PROVE TypeOK
  OBVIOUS
<1>1. slots \in Seq(PluginObjects \cup {"gone"}) /\ enabled \subseteq PluginObjects
      /\ owed \subseteq PluginObjects
  BY DEF IInv, SlotsOK, Dictionaries
<1>2. \A i, j \in Entries : NameOf[slots[i]] = NameOf[slots[j]] => i = j
  BY DEF IInv, SlotsOK, Apart, Entries
<1>3. Registered # Range(slots) => Iterating
  <2> SUFFICES ASSUME ~ Iterating PROVE Registered = Range(slots)
    OBVIOUS
  <2>1. Entries = DOMAIN slots
    BY DEF IInv, SlotsOK, Iterating, LoopIn, Entries
  <2> QED BY <2>1 DEF Registered, Range
<1>4. stack \in Seq(Frames) /\ Len(stack) <= MaxDepth
      /\ \A i \in DOMAIN stack :
            i < Len(stack) => stack[i].running \/ stack[i].kind = "load"
  BY DEF IInv, StackOK
<1>5. Registered \subseteq made
  BY DEF IInv, SlotsOK, MadeOK
<1> QED BY <1>1, <1>2, <1>3, <1>4, <1>5 DEF TypeOK, MadeOK

(* Loops that have nothing to do with a change of the registry.            *)
LEMMA DueStays ==
    ASSUME NEW f, DueOf(f), UNCHANGED <<slots, enabled>>
    PROVE  DueOf(f)'
BY DEF DueOf, Ahead, Entries

(* A change that leaves the plugins of still in their places.              *)
LEMMA DueKept ==
    ASSUME NEW f \in Frames, DueOf(f), NEW still, still \cap enabled \subseteq enabled',
           Entries' = Entries,
           \A j \in Entries : slots[j] \in still => slots'[j] = slots[j]
    PROVE  DueOf([f EXCEPT !.due = @ \cap still])'
<1> DEFINE g == [f EXCEPT !.due = @ \cap still]
<1>1. /\ g.kind = f.kind /\ g.due = f.due \cap still /\ g.size = f.size
      /\ g.plugin = f.plugin /\ g.at = f.at
  BY DEF Frames
<1> HIDE DEF g
<1>2. DueOf(g)'
  <2> SUFFICES ASSUME g.kind = "execute", g.due # {}
               PROVE  /\ g.size = Cardinality(Entries') /\ g.due \subseteq enabled'
                      /\ \A p \in g.due : p = g.plugin \/ Ahead(p, g.at)'
    BY DEF DueOf
  <2>1. /\ f.size = Cardinality(Entries) /\ f.due \subseteq enabled
        /\ \A p \in f.due : p = f.plugin \/ Ahead(p, f.at)
    BY <1>1 DEF DueOf
  <2>2. ASSUME NEW p \in g.due, p # g.plugin PROVE Ahead(p, g.at)'
    <3>1. PICK j \in Entries : j > f.at /\ slots[j] = p
      BY <1>1, <2>1, <2>2 DEF Ahead
    <3>2. j \in Entries' /\ slots'[j] = p
      BY <1>1, <2>2, <3>1
    <3> QED BY <1>1, <3>1, <3>2 DEF Ahead
  <2> QED BY <1>1, <2>1, <2>2
<1> QED BY <1>2 DEF g

LEMMA OldDue ==
    ASSUME NEW s, NEW t, Old(s, t), \A i \in DOMAIN s : DueOf(s[i])'
    PROVE  \A i \in DOMAIN t : DueOf(t[i])'
BY DEF Old, DueOf

LEMMA NoneDue ==
    ASSUME NEW f \in Frames
    PROVE  DueOf([f EXCEPT !.due = @ \cap {}])'
<1>1. [f EXCEPT !.due = @ \cap {}].due = {}
  BY DEF Frames
<1> QED BY <1>1 DEF DueOf

LEMMA InvInit == Init => IInv
<1> SUFFICES ASSUME Init PROVE IInv
  OBVIOUS
<1>1. StackOK(stack) /\ Len(stack) <= MaxDepth
  BY PluginsAssumption DEF Init, StackOK
<1>2. SlotsOK
  BY DEF Init, SlotsOK, Dictionaries, Apart, Registered, Entries
<1>3. DueOK
  BY DEF Init, DueOK
<1> QED BY <1>1, <1>2, <1>3 DEF IInv

(* The slots are left alone as long as the loops over them are.            *)
LEMMA SlotsStay ==
    ASSUME SlotsOK, UNCHANGED <<slots, enabled, owed>>, LoopIn(stack) => LoopIn(stack')
    PROVE  SlotsOK'
BY DEF SlotsOK, Registered, Entries

------------------------------------------------------------------------------
(* The steps: the loop on top goes on.                                     *)
LEMMA TopMoves ==
    ASSUME IInv, stack # <<>>, NEW f \in Frames, f.kind = Top.kind, DueOf(f),
           stack' = Replace(f), UNCHANGED <<slots, enabled, owed>>
    PROVE  IInv' /\ Len(stack') = Len(stack)
<1>1. /\ StackOK(stack') /\ Len(stack') = Len(stack) /\ DOMAIN stack' = DOMAIN stack
      /\ stack'[Len(stack)] = f
      /\ \A i \in DOMAIN stack : i # Len(stack) => stack'[i] = stack[i]
      /\ \A i \in DOMAIN stack : stack'[i].kind = stack[i].kind
  BY ReplaceIs DEF IInv, Top, Replace
<1>2. LoopIn(stack) => LoopIn(stack')
  BY <1>1 DEF LoopIn
<1>3. SlotsOK'
  BY <1>2, SlotsStay DEF IInv
<1>4. ASSUME NEW i \in DOMAIN stack' PROVE DueOf(stack[i])'
  <2>1. stack'[i] = f \/ (i \in DOMAIN stack /\ stack'[i] = stack[i])
    BY <1>1
  <2>2. PICK g : g = stack'[i]
    OBVIOUS
  <2>3. DueOf(g)
    BY <2>1, <2>2 DEF IInv, DueOK
  <2>4. DueOf(g)'
    BY <2>3, DueStays
  <2> QED BY <2>2, <2>4 DEF DueOf, Ahead, Entries
<1>5. DueOK'
  BY <1>4 DEF DueOK
<1> QED BY <1>1, <1>3, <1>5 DEF IInv

(* A loop is put on top.                                                   *)
LEMMA LoopBegins ==
    ASSUME IInv, Calling, NEW f \in Frames, DueOf(f), Len(stack) < MaxDepth,
           f.kind = "load" => Len(stack) + 1 < MaxDepth,
           Push(f), UNCHANGED <<slots, enabled, owed>>
    PROVE  IInv' /\ Len(stack') = Len(stack) + 1 /\ Last(stack') = f
<1>1. Ready(stack)
  BY DEF Calling, Ready, Top
<1>2. /\ StackOK(stack') /\ Len(stack') = Len(stack) + 1
      /\ Last(stack') = f
      /\ \A i \in DOMAIN stack : i \in DOMAIN stack' /\ stack'[i] = stack[i]
      /\ DOMAIN stack' = DOMAIN stack \cup {Len(stack) + 1}
  BY <1>1, PushIs DEF IInv, Push
<1>3. LoopIn(stack) => LoopIn(stack')
  BY <1>2 DEF LoopIn
<1>4. SlotsOK'
  BY <1>3, SlotsStay DEF IInv
<1>5. ASSUME NEW i \in DOMAIN stack' PROVE DueOf(stack[i])'
  <2>1. stack'[i] = f \/ (i \in DOMAIN stack /\ stack'[i] = stack[i])
    BY <1>2 DEF Last
  <2>2. PICK g : g = stack'[i]
    OBVIOUS
  <2>3. DueOf(g)
    BY <2>1, <2>2 DEF IInv, DueOK
  <2>4. DueOf(g)'
    BY <2>3, DueStays
  <2> QED BY <2>2, <2>4 DEF DueOf, Ahead, Entries
<1>6. Len(stack') <= MaxDepth
  <2>1. Len(stack) \in Nat
    BY DEF IInv, StackOK
  <2> QED BY <1>2, <2>1, PluginsAssumption
<1> QED BY <1>2, <1>4, <1>5, <1>6 DEF IInv, DueOK

(* A loop over handlers or files ends.                                     *)
LEMMA LoopEnds ==
    ASSUME IInv, stack # <<>>, Top.kind # "execute", Return,
           UNCHANGED <<slots, enabled, owed>>
    PROVE  IInv' /\ Len(stack') = Len(stack) - 1
<1>1. /\ StackOK(stack') /\ Len(stack') = Len(stack) - 1
      /\ DOMAIN stack' = 1 .. Len(stack) - 1
      /\ \A i \in 1 .. Len(stack) - 1 : i \in DOMAIN stack /\ stack'[i] = stack[i]
      /\ Old(stack, stack')
  BY FrontIs DEF IInv, Return
<1>2. /\ Top = stack[Len(stack)] /\ Len(stack) \in Nat /\ DOMAIN stack = 1 .. Len(stack)
  BY TopIs DEF IInv, Top
<1>3. LoopIn(stack) => LoopIn(stack')
  <2> SUFFICES ASSUME LoopIn(stack) PROVE LoopIn(stack')
    OBVIOUS
  <2>1. PICK i \in DOMAIN stack : stack[i].kind = "execute"
    BY DEF LoopIn
  <2>2. i \in 1 .. Len(stack) - 1
    BY <1>2, <2>1
  <2> QED BY <1>1, <2>1, <2>2 DEF LoopIn
<1>4. SlotsOK'
  BY <1>3, SlotsStay DEF IInv
<1>5. ASSUME NEW i \in DOMAIN stack' PROVE DueOf(stack[i])'
  <2>1. PICK g : g = stack[i]
    OBVIOUS
  <2>2. DueOf(g)
    BY <1>1, <2>1 DEF IInv, DueOK
  <2>3. DueOf(g)'
    BY <2>2, DueStays
  <2>4. stack'[i] = g
    BY <1>1, <2>1
  <2> QED BY <2>3, <2>4 DEF DueOf, Ahead, Entries
<1>6. Len(stack') <= MaxDepth
  BY <1>1, <1>2, PluginsAssumption DEF IInv
<1> QED BY <1>1, <1>4, <1>5, <1>6 DEF IInv, DueOK

(* What a dictionary that has been compacted is to the loops and the       *)
(* program.                                                                *)
LEMMA CompactKeeps ==
    ASSUME NEW s \in Dictionaries, Apart(s)
    PROVE  /\ Compact(s) \in Dictionaries /\ Apart(Compact(s))
           /\ \A j \in DOMAIN Compact(s) :
                 /\ Compact(s)[j] # "gone"
                 /\ \E i \in DOMAIN s : s[i] # "gone" /\ Compact(s)[j] = s[i]
<1> DEFINE t == Compact(s)
<1>1. LeftOf(s, Len(s), t) /\ Len(s) \in Nat /\ DOMAIN s = 1 .. Len(s)
  BY CompactIs DEF Dictionaries
<1> HIDE DEF t
<1>2. t \in Seq(PluginObjects) /\ Apart(t)
      /\ \A j \in DOMAIN t : \E i \in DOMAIN s : s[i] # "gone" /\ t[j] = s[i]
  BY <1>1 DEF LeftOf
<1>3. t \in Dictionaries
  BY <1>2 DEF Dictionaries
<1>4. \A j \in DOMAIN t : t[j] # "gone"
  BY <1>2, PluginsAssumption
<1> QED BY <1>2, <1>3, <1>4 DEF t

(* execute_hooks ends, and its caller goes on, or ends a handler as well.  *)
LEMMA ExecuteEnds ==
    ASSUME IInv, stack # <<>>, Raise, UNCHANGED <<enabled, owed>>,
           slots' = IF \E i \in 1 .. Len(stack) - 1 : stack[i].kind = "execute"
                    THEN slots ELSE Compact(slots)
    PROVE  IInv' /\ Len(stack') = Len(stack) - 1
<1> DEFINE t == Front(stack)
<1>1. /\ StackOK(t) /\ Len(t) = Len(stack) - 1
      /\ DOMAIN t = 1 .. Len(stack) - 1
      /\ \A i \in 1 .. Len(stack) - 1 : i \in DOMAIN stack /\ t[i] = stack[i]
  BY FrontIs DEF IInv
<1>2. Len(stack) \in Nat /\ stack \in Seq(Frames)
  BY DEF IInv, StackOK
<1>3. stack' = t \/ /\ Len(stack) > 1
                    /\ stack' = [t EXCEPT ![Len(stack) - 1].running = FALSE]
  BY DEF Raise
<1> HIDE DEF t
<1>4. /\ StackOK(stack') /\ Len(stack') = Len(t) /\ DOMAIN stack' = DOMAIN t
      /\ \A i \in DOMAIN t : \/ stack'[i] = t[i]
                             \/ stack'[i] = [t[i] EXCEPT !.running = FALSE]
  <2>1. CASE stack' = t
    BY <1>1, <2>1
  <2>2. CASE Len(stack) > 1 /\ stack' = [t EXCEPT ![Len(stack) - 1].running = FALSE]
    <3> DEFINE f == [t[Len(t)] EXCEPT !.running = FALSE]
    <3>1. t # <<>> /\ Len(t) \in DOMAIN t
      BY <1>1, <1>2, <2>2
    <3>2. Last(t) = t[Len(t)] /\ Last(t) \in Frames
      BY <1>1, <3>1, TopIs
    <3>3. f \in Frames /\ f.kind = Last(t).kind
      BY <3>2 DEF Frames
    <3>4. stack' = [t EXCEPT ![Len(t)] = f]
      BY <1>1, <2>2
    <3>5. f = [t[Len(t)] EXCEPT !.running = FALSE]
      OBVIOUS
    <3> HIDE DEF f
    <3>6. /\ StackOK(stack') /\ Len(stack') = Len(t) /\ DOMAIN stack' = DOMAIN t
          /\ stack'[Len(t)] = f
          /\ \A i \in DOMAIN t : i # Len(t) => stack'[i] = t[i]
      BY <1>1, <3>1, <3>3, <3>4, ReplaceIs
    <3> QED BY <3>5, <3>6
  <2> QED BY <1>3, <2>1, <2>2
<1>5. \A i \in DOMAIN t : t[i] = stack[i] /\ t[i] \in Frames /\ i \in DOMAIN stack
  BY <1>1 DEF StackOK
<1>6. ASSUME NEW f \in Frames
      PROVE  LET g == [f EXCEPT !.running = FALSE]
             IN  /\ g.kind = f.kind /\ g.due = f.due /\ g.size = f.size
                 /\ g.plugin = f.plugin /\ g.at = f.at
  BY DEF Frames
<1>7. ASSUME NEW i \in DOMAIN stack'
      PROVE  /\ stack'[i].kind = stack[i].kind /\ stack'[i].due = stack[i].due
             /\ stack'[i].size = stack[i].size /\ stack'[i].plugin = stack[i].plugin
             /\ stack'[i].at = stack[i].at /\ i \in DOMAIN stack
  <2>1. PICK f : f = stack[i]
    OBVIOUS
  <2>2. f \in Frames /\ i \in DOMAIN stack
    BY <1>4, <1>5, <2>1
  <2>3. stack'[i] = f \/ stack'[i] = [f EXCEPT !.running = FALSE]
    BY <1>4, <1>5, <2>1
  <2> QED BY <1>6, <2>1, <2>2, <2>3
<1>8. Len(stack') <= MaxDepth
  BY <1>1, <1>2, <1>4, PluginsAssumption DEF IInv
<1>9. CASE \E i \in 1 .. Len(stack) - 1 : stack[i].kind = "execute"
  <2>1. UNCHANGED <<slots, enabled, owed>>
    BY <1>9
  <2>2. LoopIn(stack')
    BY <1>1, <1>4, <1>7, <1>9 DEF LoopIn
  <2>3. SlotsOK'
    BY <2>1, <2>2, SlotsStay DEF IInv
  <2>4. ASSUME NEW i \in DOMAIN stack' PROVE DueOf(stack[i])'
    <3>1. PICK f : f = stack[i]
      OBVIOUS
    <3>2. PICK g : g = stack'[i]
      OBVIOUS
    <3>3. DueOf(f)
      BY <1>7, <3>1 DEF IInv, DueOK
    <3>4. DueOf(f)'
      BY <2>1, <3>3, DueStays
    <3>5. /\ g.kind = f.kind /\ g.due = f.due /\ g.size = f.size
          /\ g.plugin = f.plugin /\ g.at = f.at
      BY <1>7, <3>1, <3>2
    <3>6. DueOf(g)'
      BY <3>4, <3>5 DEF DueOf
    <3> QED BY <3>2, <3>6 DEF DueOf, Ahead, Entries
  <2> QED BY <1>1, <1>4, <1>8, <2>3, <2>4 DEF IInv, DueOK
<1>10. CASE ~ \E i \in 1 .. Len(stack) - 1 : stack[i].kind = "execute"
  <2>1. slots' = Compact(slots)
    BY <1>10
  <2>2. /\ slots' \in Dictionaries /\ Apart(slots')
        /\ \A j \in DOMAIN slots' :
              /\ slots'[j] # "gone"
              /\ \E i \in DOMAIN slots : slots[i] # "gone" /\ slots'[j] = slots[i]
    BY <2>1, CompactKeeps DEF IInv, SlotsOK
  <2>3. Registered' \subseteq Registered
    BY <2>2 DEF Registered, Entries
  <2>4. SlotsOK'
    BY <2>2, <2>3 DEF IInv, SlotsOK
  <2>5. \A i \in DOMAIN stack' : stack'[i].kind # "execute"
    BY <1>1, <1>4, <1>7, <1>10
  <2>6. DueOK'
    BY <2>5 DEF DueOK, DueOf
  <2> QED BY <1>1, <1>4, <1>8, <2>4, <2>6 DEF IInv
<1> QED BY <1>1, <1>4, <1>9, <1>10

(* A plugin is enabled or disabled.                                        *)
LEMMA EnabledSet ==
    ASSUME IInv, NEW p \in HaveName, SetEnabled(p)
    PROVE  IInv' /\ Len(stack') = Len(stack)
<1>1. /\ stack' = Seen(stack, enabled') /\ UNCHANGED <<slots, owed>>
      /\ enabled' \subseteq PluginObjects
  BY DEF SetEnabled, IInv, SlotsOK, HaveName
<1>2. /\ StackOK(stack') /\ Len(stack') = Len(stack) /\ DOMAIN stack' = DOMAIN stack
      /\ LoopIn(stack) <=> LoopIn(stack')
      /\ \A i \in DOMAIN stack : stack'[i] = [stack[i] EXCEPT !.due = @ \cap enabled']
  BY <1>1, SeenIs DEF IInv
<1>3. SlotsOK'
  BY <1>1, <1>2 DEF IInv, SlotsOK, Registered, Entries
<1>4. ASSUME NEW i \in DOMAIN stack' PROVE DueOf(stack[i])'
  <2>1. PICK f : f = stack[i]
    OBVIOUS
  <2>2. f \in Frames /\ DueOf(f)
    BY <1>2, <2>1 DEF IInv, DueOK, StackOK
  <2>3. PICK still : still = enabled'
    OBVIOUS
  <2>4. DueOf([f EXCEPT !.due = @ \cap still])'
    <3>1. Entries' = Entries
      BY <1>1 DEF Entries
    <3>2. still \cap enabled \subseteq enabled'
      BY <2>3
    <3>3. \A j \in Entries : slots[j] \in still => slots'[j] = slots[j]
      BY <1>1
    <3> QED BY <2>2, <3>1, <3>2, <3>3, DueKept
  <2>5. stack'[i] = [f EXCEPT !.due = @ \cap still]
    BY <1>2, <2>1, <2>3
  <2> QED BY <2>4, <2>5 DEF DueOf, Ahead, Entries
<1> QED BY <1>2, <1>3, <1>4 DEF IInv, DueOK

------------------------------------------------------------------------------
(* The steps: a plugin comes.                                              *)

(* The new one is registered, and of the others those of other names.      *)
NewSlots(plugin) ==
    /\ slots' \in Dictionaries /\ Apart(slots')
    /\ \A i \in DOMAIN slots' : slots'[i] = "gone" => \E j \in DOMAIN slots : slots[j] = "gone"
    /\ \A i \in Entries' :
          \/ slots'[i] = plugin
          \/ \E j \in Entries : slots'[i] = slots[j] /\ NameOf[slots[j]] # NameOf[plugin]

LEMMA Overwritten ==
    ASSUME SlotsOK, NEW plugin \in PluginObjects,
           slots' = [i \in DOMAIN slots |->
                        IF i \in Named(NameOf[plugin]) THEN plugin ELSE slots[i]]
    PROVE  NewSlots(plugin) /\ Entries' = Entries
<1> DEFINE places == Named(NameOf[plugin])
<1>1. slots \in Dictionaries /\ Apart(slots) /\ plugin # "gone"
  BY PluginsAssumption DEF SlotsOK
<1>2. /\ places \subseteq Entries /\ Entries \subseteq DOMAIN slots
      /\ \A i \in Entries : i \in places <=> NameOf[slots[i]] = NameOf[plugin]
  BY DEF Named, Entries
<1> HIDE DEF places
<1>3. /\ DOMAIN slots' = DOMAIN slots
      /\ \A i \in DOMAIN slots : slots'[i] = IF i \in places THEN plugin ELSE slots[i]
  BY DEF places
<1>4. slots' \in Dictionaries
  <2>1. DOMAIN slots = 1 .. Len(slots) /\ Len(slots) \in Nat
    BY <1>1 DEF Dictionaries
  <2>2. \A i \in DOMAIN slots : slots'[i] \in PluginObjects \cup {"gone"}
    BY <1>1, <1>3 DEF Dictionaries
  <2>3. slots' \in [1 .. Len(slots) -> PluginObjects \cup {"gone"}]
    BY <2>1, <2>2
  <2> QED BY <2>1, <2>3 DEF Dictionaries
<1>5. Entries' = Entries
  BY <1>1, <1>2, <1>3 DEF Entries
<1>6. ASSUME NEW i \in Entries, NEW j \in Entries, NameOf[slots'[i]] = NameOf[slots'[j]]
      PROVE  i = j
  <2>1. NameOf[slots'[i]] = NameOf[slots[i]] /\ NameOf[slots'[j]] = NameOf[slots[j]]
    BY <1>2, <1>3
  <2> QED BY <1>1, <1>6, <2>1 DEF Apart, Entries
<1>7. Apart(slots')
  BY <1>5, <1>6 DEF Apart, Entries
<1>8. \A i \in DOMAIN slots' : slots'[i] = "gone" => slots[i] = "gone" /\ i \in DOMAIN slots
  BY <1>1, <1>3
<1>9. \A i \in Entries :
         \/ slots'[i] = plugin
         \/ slots'[i] = slots[i] /\ NameOf[slots[i]] # NameOf[plugin]
  BY <1>2, <1>3
<1> QED BY <1>4, <1>5, <1>7, <1>8, <1>9 DEF NewSlots

LEMMA Added ==
    ASSUME SlotsOK, NEW plugin \in PluginObjects, Named(NameOf[plugin]) = {},
           NEW entries \in Grown, slots' = Append(entries, plugin)
    PROVE  NewSlots(plugin)
<1>1. slots \in Dictionaries /\ Apart(slots) /\ plugin # "gone"
  BY PluginsAssumption DEF SlotsOK
<1>2. /\ entries \in Dictionaries /\ Apart(entries)
      /\ \A j \in DOMAIN entries :
            /\ entries[j] = "gone" => \E i \in DOMAIN slots : slots[i] = "gone"
            /\ entries[j] # "gone" =>
                  \E i \in DOMAIN slots : slots[i] # "gone" /\ entries[j] = slots[i]
  BY <1>1, CompactKeeps DEF Grown
<1>3. \A i \in DOMAIN slots : slots[i] # "gone" => NameOf[slots[i]] # NameOf[plugin]
  BY DEF Named, Entries
<1>4. /\ slots' \in Dictionaries
      /\ DOMAIN slots' = DOMAIN entries \cup {Len(entries) + 1}
      /\ \A j \in DOMAIN entries : slots'[j] = entries[j]
      /\ slots'[Len(entries) + 1] = plugin
  BY <1>2 DEF Dictionaries
<1>5. \A j \in DOMAIN entries : entries[j] # "gone" => NameOf[entries[j]] # NameOf[plugin]
  BY <1>2, <1>3
<1>6. Apart(slots')
  BY <1>2, <1>4, <1>5 DEF Apart
<1>7. \A i \in DOMAIN slots' : slots'[i] = "gone" => \E j \in DOMAIN slots : slots[j] = "gone"
  BY <1>1, <1>2, <1>4
<1>8. ASSUME NEW i \in Entries', slots'[i] # plugin
      PROVE  \E j \in Entries : slots'[i] = slots[j] /\ NameOf[slots[j]] # NameOf[plugin]
  <2>1. i \in DOMAIN entries /\ slots'[i] = entries[i] /\ entries[i] # "gone"
    BY <1>4, <1>8 DEF Entries
  <2>2. PICK j \in DOMAIN slots : slots[j] # "gone" /\ entries[i] = slots[j]
    BY <1>2, <2>1
  <2> QED BY <1>3, <2>1, <2>2 DEF Entries
<1> QED BY <1>4, <1>6, <1>7, <1>8 DEF NewSlots

(* register, whoever calls it.                                             *)
LEMMA Registers ==
    ASSUME IInv, NEW plugin \in HaveName, NEW frames, StackOK(frames), Ready(frames),
           LoopIn(stack) => LoopIn(frames), \A i \in DOMAIN frames : DueOf(frames[i]),
           enabled \subseteq enabled', enabled' \subseteq PluginObjects,
           Register(plugin, frames), Len(stack') <= MaxDepth
    PROVE  IInv'
<1>1. PICK places : places = Named(NameOf[plugin])
  OBVIOUS
<1>2. PICK still : still = IF places = {} THEN {}
                           ELSE {p \in PluginObjects : NameOf[p] # NameOf[plugin]}
  OBVIOUS
<1>3. PICK g : g = Seen(frames, still)
  OBVIOUS
<1>4. plugin \in PluginObjects /\ "on_load" \in Lifecycle
  BY DEF HaveName, Lifecycle
<1>5. stack' = CallHooks(g, plugin, "on_load")
  BY <1>1, <1>2, <1>3 DEF Register
<1>6. /\ places # {} => /\ NewSlots(plugin) /\ Entries' = Entries
                        /\ \A i \in Entries : i \notin places => slots'[i] = slots[i]
      /\ places = {} => NewSlots(plugin)
  BY <1>4, <1>1, Overwritten, Added DEF Register, IInv, Entries
<1>7. owed' = {p \in owed : NameOf[p] # NameOf[plugin]} \cup {plugin}
  BY DEF Register
<1>8. /\ StackOK(g) /\ Ready(g) /\ DOMAIN g = DOMAIN frames
      /\ LoopIn(frames) => LoopIn(g)
      /\ \A i \in DOMAIN frames : g[i] = [frames[i] EXCEPT !.due = @ \cap still]
  BY <1>3, SeenIs
<1>9. StackOK(stack') /\ Old(g, stack') /\ (LoopIn(g) => LoopIn(stack'))
  BY <1>4, <1>5, <1>8, CallHooksIs
<1>10. SlotsOK'
  <2>1. NewSlots(plugin)
    BY <1>6
  <2>2. Registered' \subseteq owed'
    <3> SUFFICES ASSUME NEW i \in Entries' PROVE slots'[i] \in owed'
      BY DEF Registered
    <3>1. CASE slots'[i] = plugin
      BY <1>7, <3>1
    <3>2. CASE \E j \in Entries : slots'[i] = slots[j] /\ NameOf[slots[j]] # NameOf[plugin]
      BY <1>7, <3>2 DEF IInv, SlotsOK, Registered
    <3> QED BY <2>1, <3>1, <3>2 DEF NewSlots
  <2>3. \A i \in DOMAIN slots' : slots'[i] = "gone" => LoopIn(stack')
    BY <1>8, <1>9, <2>1 DEF NewSlots, IInv, SlotsOK
  <2>4. owed' \subseteq PluginObjects
    BY <1>4, <1>7 DEF IInv, SlotsOK
  <2> QED BY <2>1, <2>2, <2>3, <2>4 DEF SlotsOK, NewSlots
<1>11. ASSUME NEW i \in DOMAIN g PROVE DueOf(g[i])'
  <2>1. PICK f : f = frames[i]
    OBVIOUS
  <2>2. f \in Frames /\ DueOf(f) /\ g[i] = [f EXCEPT !.due = @ \cap still]
    BY <1>8, <2>1 DEF StackOK
  <2>3. CASE places = {}
    <3>1. g[i] = [f EXCEPT !.due = @ \cap {}]
      BY <1>2, <2>2, <2>3
    <3>2. DueOf([f EXCEPT !.due = @ \cap {}])'
      BY <2>2, NoneDue
    <3> QED BY <3>1, <3>2
  <2>4. CASE places # {}
    <3>1. \A j \in Entries : slots[j] \in still => slots'[j] = slots[j]
      <4> SUFFICES ASSUME NEW j \in Entries, slots[j] \in still PROVE slots'[j] = slots[j]
        OBVIOUS
      <4>1. j \notin places
        BY <1>1, <1>2, <2>4 DEF Named
      <4> QED BY <1>6, <2>4, <4>1
    <3>2. still \cap enabled \subseteq enabled' /\ Entries' = Entries
      BY <1>6, <2>4
    <3>3. DueOf([f EXCEPT !.due = @ \cap still])'
      BY <2>2, <3>1, <3>2, DueKept
    <3> QED BY <2>2, <3>3
  <2> QED BY <2>3, <2>4
<1>12. DueOK'
  <2>1. PICK t : t = stack'
    OBVIOUS
  <2>2. \A i \in DOMAIN t : DueOf(t[i])'
    <3>1. Old(g, t)
      BY <1>9, <2>1
    <3> QED BY <1>11, <3>1, OldDue
  <2> QED BY <2>1, <2>2 DEF DueOK, DueOf, Ahead, Entries
<1> QED BY <1>9, <1>10, <1>12 DEF IInv

(* A plugin goes.                                                          *)
LEMMA Unregisters ==
    ASSUME IInv, NEW name, Unregister(name)
    PROVE  /\ IInv'
           /\ Len(stack') = Len(stack) \/ /\ Len(stack') = Len(stack) + 1
                                          /\ Last(stack').plugin \in Registered
<1>1. PICK i \in Named(name) :
         /\ slots' = IF Iterating THEN [slots EXCEPT ![i] = "gone"]
                     ELSE Compact([slots EXCEPT ![i] = "gone"])
         /\ stack' = CallHooks(Seen(stack, {}), slots[i], "on_shutdown")
         /\ owed' = owed \ {slots[i]}
  BY DEF Unregister
<1>2. PICK plugin : plugin = slots[i]
  OBVIOUS
<1>3. Calling /\ enabled' = enabled /\ Len(stack') <= MaxDepth
  BY DEF Unregister
<1>4. /\ slots \in Dictionaries /\ Apart(slots) /\ i \in Entries
      /\ i \in DOMAIN slots /\ plugin \in Registered /\ plugin \in PluginObjects
  BY <1>2 DEF IInv, SlotsOK, Named, Entries, Registered
<1> DEFINE d == [slots EXCEPT ![i] = "gone"]
<1>5. /\ d \in Dictionaries /\ DOMAIN d = DOMAIN slots
      /\ \A j \in DOMAIN slots : d[j] = IF j = i THEN "gone" ELSE slots[j]
  BY <1>4 DEF Dictionaries
<1>6. slots' = IF Iterating THEN d ELSE Compact(d)
  BY <1>1
<1> HIDE DEF d
<1>7. Apart(d)
  BY <1>4, <1>5 DEF Apart
<1>8. /\ slots' \in Dictionaries /\ Apart(slots')
      /\ \A j \in DOMAIN slots' :
            /\ slots'[j] = "gone" => Iterating
            /\ slots'[j] # "gone" =>
                  \E k \in DOMAIN slots : /\ k # i /\ slots[k] # "gone"
                                          /\ slots'[j] = slots[k]
  <2>1. CASE Iterating
    BY <1>5, <1>6, <1>7, <2>1
  <2>2. CASE ~ Iterating
    <3>1. slots' = Compact(d)
      BY <1>6, <2>2
    <3>2. /\ slots' \in Dictionaries /\ Apart(slots')
          /\ \A j \in DOMAIN slots' :
                /\ slots'[j] # "gone"
                /\ \E k \in DOMAIN d : d[k] # "gone" /\ slots'[j] = d[k]
      BY <1>5, <1>7, <3>1, CompactKeeps
    <3> QED BY <1>5, <3>2
  <2> QED BY <2>1, <2>2
<1>9. PICK g : g = Seen(stack, {})
  OBVIOUS
<1>10. Ready(stack)
  BY <1>3 DEF Calling, Ready, Top
<1>11. /\ StackOK(g) /\ Ready(g) /\ Len(g) = Len(stack) /\ DOMAIN g = DOMAIN stack
       /\ LoopIn(stack) => LoopIn(g)
       /\ \A j \in DOMAIN stack : g[j] = [stack[j] EXCEPT !.due = @ \cap {}]
  BY <1>9, <1>10, SeenIs DEF IInv
<1>12. stack' = CallHooks(g, plugin, "on_shutdown") /\ "on_shutdown" \in Lifecycle
  BY <1>1, <1>2, <1>9 DEF Lifecycle
<1>13. /\ StackOK(stack') /\ Old(g, stack') /\ (LoopIn(g) => LoopIn(stack'))
       /\ stack' = g \/ (Len(stack') = Len(g) + 1 /\ Last(stack').plugin = plugin)
  BY <1>4, <1>11, <1>12, CallHooksIs
<1>14. SlotsOK'
  <2>1. Registered' \subseteq owed'
    <3> SUFFICES ASSUME NEW j \in DOMAIN slots', slots'[j] # "gone"
                 PROVE  slots'[j] \in owed'
      BY DEF Registered, Entries
    <3>1. PICK k \in DOMAIN slots : k # i /\ slots[k] # "gone" /\ slots'[j] = slots[k]
      BY <1>8
    <3>2. slots[k] \in owed
      BY <3>1 DEF IInv, SlotsOK, Registered, Entries
    <3>3. slots[i] # "gone"
      BY <1>4 DEF Entries
    <3>4. slots[k] # plugin
      BY <1>2, <1>4, <3>1, <3>3 DEF Apart
    <3> QED BY <1>1, <1>2, <3>1, <3>2, <3>4
  <2>2. Iterating => LoopIn(stack')
    BY <1>11, <1>13 DEF Iterating, LoopIn
  <2>3. owed' \subseteq PluginObjects /\ enabled' \subseteq PluginObjects
    BY <1>1, <1>3 DEF IInv, SlotsOK
  <2>4. \A j \in DOMAIN slots' : slots'[j] = "gone" => LoopIn(stack')
    BY <1>8, <2>2
  <2> QED BY <1>8, <2>1, <2>3, <2>4 DEF SlotsOK
<1>15. ASSUME NEW j \in DOMAIN g PROVE DueOf(g[j])'
  <2>1. PICK f : f = stack[j]
    OBVIOUS
  <2>2. f \in Frames /\ g[j] = [f EXCEPT !.due = @ \cap {}]
    BY <1>11, <2>1 DEF IInv, StackOK
  <2>3. DueOf([f EXCEPT !.due = @ \cap {}])'
    BY <2>2, NoneDue
  <2> QED BY <2>2, <2>3
<1>16. DueOK'
  <2>1. PICK t : t = stack'
    OBVIOUS
  <2>2. Old(g, t)
    BY <1>13, <2>1
  <2>3. \A j \in DOMAIN t : DueOf(t[j])'
    BY <1>15, <2>2, OldDue
  <2> QED BY <2>1, <2>3 DEF DueOK, DueOf, Ahead, Entries
<1>17. Len(stack') = Len(stack) \/ /\ Len(stack') = Len(stack) + 1
                                   /\ Last(stack').plugin \in Registered
  BY <1>4, <1>11, <1>13
<1> QED BY <1>3, <1>13, <1>14, <1>16, <1>17 DEF IInv

------------------------------------------------------------------------------
(* Every step: what it does to the calls under way.                        *)

(* The call that ends is of this loop.                                     *)
Ended == /\ stack # <<>> /\ Len(stack') = Len(stack) - 1
         /\ Top.kind = "execute" => EndExecute \/ ExecuteRaises

(* The call that begins is not that of a plugin's shutdown, or the plugin  *)
(* is registered.                                                          *)
Begun == /\ Len(stack') = Len(stack) + 1
         /\ Last(stack').kind = "lifecycle" /\ Last(stack').hook = "on_shutdown" =>
               Last(stack').plugin \in Registered

Step == IInv' /\ (Len(stack') = Len(stack) \/ Ended \/ Begun)

LEMMA RegisterStep ==
    ASSUME IInv, NEW plugin \in HaveName, NEW frames, StackOK(frames), Ready(frames),
           Len(frames) = Len(stack),
           LoopIn(stack) => LoopIn(frames), \A i \in DOMAIN frames : DueOf(frames[i]),
           enabled \subseteq enabled', enabled' \subseteq PluginObjects,
           Register(plugin, frames), Len(stack') <= MaxDepth
    PROVE  Step
<1>1. IInv'
  BY Registers
<1>2. PICK still : stack' = CallHooks(Seen(frames, still), plugin, "on_load")
  BY DEF Register
<1>3. PICK g : g = Seen(frames, still)
  OBVIOUS
<1>4. StackOK(g) /\ Ready(g) /\ Len(g) = Len(frames)
  BY <1>3, SeenIs
<1>5. plugin \in PluginObjects /\ "on_load" \in Lifecycle
  BY DEF HaveName, Lifecycle
<1>6. stack' = g \/ (Len(stack') = Len(g) + 1 /\ Last(stack').hook = "on_load")
  BY <1>2, <1>3, <1>4, <1>5, CallHooksIs
<1> QED BY <1>1, <1>4, <1>6 DEF Step, Begun

(* The loop over the files takes the next one.                             *)
LEMMA FileStep ==
    ASSUME IInv, NextFile
    PROVE  Step
<1> DEFINE f == [Top EXCEPT !.at = @ + 1]
           frames == Replace(f)
<1>1. /\ stack # <<>> /\ Top.kind = "load" /\ StackOK(stack)
      /\ Top \in Frames /\ Top = Last(stack) /\ Top = stack[Len(stack)]
      /\ Len(stack) \in DOMAIN stack /\ Len(stack) \in Nat \ {0}
  BY TopIs DEF NextFile, IInv, Top
<1>2. f \in Frames /\ f.kind = "load"
  BY <1>1 DEF Frames
<1>3. DueOf(f)
  BY <1>2 DEF DueOf
<1>4. CASE stack' = frames /\ UNCHANGED <<slots, enabled, owed>>
  <2> HIDE DEF f
  <2> QED BY <1>1, <1>2, <1>3, <1>4, TopMoves DEF Step
<1>5. ASSUME NEW plugin \in HaveName, UNCHANGED enabled,
             Register(plugin, frames)
      PROVE  Step
  <2>1. PICK h : h = frames
    OBVIOUS
  <2> HIDE DEF f
  <2>2. /\ StackOK(h) /\ Len(h) = Len(stack) /\ DOMAIN h = DOMAIN stack
        /\ h[Len(stack)] = f /\ Last(h) = f
        /\ \A i \in DOMAIN stack : i # Len(stack) => h[i] = stack[i]
        /\ \A i \in DOMAIN stack : h[i].kind = stack[i].kind
    BY <1>1, <1>2, <2>1, ReplaceIs DEF Replace
  <2>3. Ready(h)
    BY <1>2, <2>2 DEF Ready
  <2>4. LoopIn(stack) => LoopIn(h)
    BY <2>2 DEF LoopIn
  <2>5. \A i \in DOMAIN h : DueOf(h[i])
    BY <1>3, <2>2 DEF IInv, DueOK
  <2>6. enabled \subseteq enabled' /\ enabled' \subseteq PluginObjects
    BY <1>5 DEF IInv, SlotsOK, HaveName
  <2>7. Register(plugin, h)
    BY <1>5, <2>1
  <2>8. Len(stack') <= MaxDepth
    <3>1. PICK still : stack' = CallHooks(Seen(h, still), plugin, "on_load")
      BY <2>7 DEF Register
    <3>2. PICK g : g = Seen(h, still)
      OBVIOUS
    <3>3. StackOK(g) /\ Ready(g) /\ Len(g) = Len(stack)
      BY <2>2, <2>3, <3>2, SeenIs
    <3>4. plugin \in PluginObjects /\ "on_load" \in Lifecycle
      BY DEF HaveName, Lifecycle
    <3>5. stack' = g \/ Len(stack') = Len(g) + 1
      BY <3>1, <3>2, <3>3, <3>4, CallHooksIs
    <3>6. Len(stack) < MaxDepth
      BY <1>1 DEF StackOK
    <3> QED BY <1>1, <3>3, <3>5, <3>6, PluginsAssumption
  <2> QED BY <2>2, <2>3, <2>4, <2>5, <2>6, <2>7, <2>8, RegisterStep
<1>6. UNCHANGED enabled
  BY DEF NextFile
<1>7. CASE stack' = frames /\ UNCHANGED <<slots, made, owed>>
  <2>1. stack' = frames /\ UNCHANGED <<slots, enabled, owed>>
    BY <1>6, <1>7
  <2> HIDE DEF frames
  <2> QED BY <1>4, <2>1
<1>8. ASSUME NEW plugin \in HaveName, Register(plugin, frames) PROVE Step
  <2> HIDE DEF frames
  <2> QED BY <1>5, <1>6, <1>8
<1>9. \/ \E plugin \in HaveName : Register(plugin, frames)
      \/ stack' = frames /\ UNCHANGED <<slots, made, owed>>
  <2>1. frames = Replace([Top EXCEPT !.at = Top.at + 1])
    OBVIOUS
  <2> HIDE DEF frames
  <2> QED BY <2>1 DEF NextFile
<1> HIDE DEF frames
<1> QED BY <1>7, <1>8, <1>9

(* execute_hooks takes the next entry: what is due stays due.              *)
LEMMA EntryStep ==
    ASSUME IInv, NextEntry
    PROVE  Step
<1>1. /\ stack # <<>> /\ Top.kind = "execute" /\ StackOK(stack)
      /\ Top \in Frames /\ Top = stack[Len(stack)] /\ Len(stack) \in DOMAIN stack
  BY TopIs DEF NextEntry, IInv, Top
<1>2. PICK i : i = CHOOSE k \in After(Top) : \A j \in After(Top) : k <= j
  OBVIOUS
<1>3. PICK top : top = Top
  OBVIOUS
<1> DEFINE f == [top EXCEPT !.at = i, !.called = 0, !.due = @ \ {top.plugin},
                            !.plugin = IF slots[i] \in enabled THEN slots[i] ELSE "none"]
<1>4. /\ After(Top) # {} /\ stack' = Replace(f) /\ UNCHANGED <<slots, enabled, owed>>
  BY <1>2, <1>3 DEF NextEntry
<1>5. slots \in Dictionaries /\ Entries \subseteq DOMAIN slots /\ DOMAIN slots \subseteq Nat
      /\ enabled \subseteq PluginObjects
  BY DEF IInv, SlotsOK, Dictionaries, Entries
<1>6. /\ i \in Entries /\ i > top.at /\ i \in Nat
      /\ \A j \in Entries : j > top.at => i <= j
  <2>1. After(Top) \subseteq Nat
    BY <1>5 DEF After
  <2>2. \E k \in After(Top) : \A j \in After(Top) : k <= j
    BY <1>4, <2>1, LeastExists
  <2>3. i \in After(Top) /\ \A j \in After(Top) : i <= j
    BY <1>2, <2>2
  <2> QED BY <1>3, <1>5, <2>3 DEF After
<1>7. PICK plugin : plugin = IF slots[i] \in enabled THEN slots[i] ELSE "none"
  OBVIOUS
<1>8. plugin \in PluginObjects \cup {"none"}
  BY <1>5, <1>7
<1>9. f = [top EXCEPT !.at = i, !.called = 0, !.due = @ \ {top.plugin}, !.plugin = plugin]
  BY <1>7
<1>10. top \in Frames /\ top.kind = "execute" /\ DueOf(top)
  BY <1>1, <1>3 DEF IInv, DueOK
<1> HIDE DEF f
<1>11. /\ f \in Frames /\ f.kind = "execute" /\ f.at = i /\ f.plugin = plugin
       /\ f.due = top.due \ {top.plugin} /\ f.size = top.size
  BY <1>6, <1>8, <1>9, <1>10 DEF Frames
<1>12. DueOf(f)
  <2> SUFFICES ASSUME f.due # {}
               PROVE  /\ f.size = Cardinality(Entries) /\ f.due \subseteq enabled
                      /\ \A p \in f.due : p = f.plugin \/ Ahead(p, f.at)
    BY DEF DueOf
  <2>1. /\ top.size = Cardinality(Entries) /\ top.due \subseteq enabled
        /\ \A p \in top.due : p = top.plugin \/ Ahead(p, top.at)
    BY <1>10, <1>11 DEF DueOf
  <2>2. ASSUME NEW p \in f.due PROVE p = f.plugin \/ Ahead(p, f.at)
    <3>1. p \in top.due /\ p # top.plugin /\ p \in enabled
      BY <1>11, <2>1
    <3>2. PICK j \in Entries : j > top.at /\ slots[j] = p
      BY <2>1, <3>1 DEF Ahead
    <3>3. j \in Nat /\ i <= j
      BY <1>5, <1>6, <3>2
    <3>4. CASE j = i
      BY <1>7, <1>11, <3>1, <3>2, <3>4
    <3>5. CASE j # i
      <4>1. j > i
        BY <1>6, <3>3, <3>5
      <4> QED BY <1>11, <3>2, <4>1 DEF Ahead
    <3> QED BY <3>4, <3>5
  <2> QED BY <1>11, <2>1, <2>2
<1>13. stack' = Replace(f) /\ f.kind = Top.kind
  BY <1>1, <1>4, <1>11
<1> QED BY <1>1, <1>4, <1>11, <1>12, <1>13, TopMoves DEF Step

LEMMA StepIs == IInv /\ [Next]_vars => Step
<1> SUFFICES ASSUME IInv, [Next]_vars PROVE Step
  OBVIOUS
<1>1. ASSUME NEW p \in HaveName, RegisterCalled(p) PROVE Step
  <2>1. StackOK(stack) /\ Ready(stack)
    BY <1>1 DEF RegisterCalled, Calling, Ready, Top, IInv
  <2>2. enabled' = enabled /\ Register(p, stack) /\ Len(stack') <= MaxDepth
    BY <1>1 DEF RegisterCalled
  <2>3. enabled \subseteq enabled' /\ enabled' \subseteq PluginObjects
    BY <2>2 DEF IInv, SlotsOK
  <2>4. \A i \in DOMAIN stack : DueOf(stack[i])
    BY DEF IInv, DueOK
  <2>5. PICK frames : frames = stack
    OBVIOUS
  <2>6. /\ StackOK(frames) /\ Ready(frames) /\ Len(frames) = Len(stack)
        /\ LoopIn(stack) => LoopIn(frames)
        /\ \A i \in DOMAIN frames : DueOf(frames[i])
        /\ Register(p, frames)
    BY <2>1, <2>2, <2>4, <2>5
  <2> QED BY <2>2, <2>3, <2>6, RegisterStep
<1>2. ASSUME NEW name, Unregister(name) PROVE Step
  BY <1>2, Unregisters DEF Step, Begun
<1>3. ASSUME NEW p \in HaveName, SetEnabled(p) PROVE Step
  BY <1>3, EnabledSet DEF Step
<1>4. ASSUME NEW h \in Hooks, ExecuteHooks(h) PROVE Step
  <2>1. PICK f : f = Frame("execute", h, "none")
    OBVIOUS
  <2>2. slots \in Dictionaries /\ Registered \cap enabled \subseteq PluginObjects
    BY DEF IInv, SlotsOK
  <2>3. Cardinality(Entries) \in Nat
    <3>1. Len(slots) \in Nat /\ Entries \subseteq 1 .. Len(slots)
      BY <2>2 DEF Entries, Dictionaries
    <3>2. IsFiniteSet(1 .. Len(slots))
      BY <3>1, FS_Interval
    <3>3. IsFiniteSet(Entries)
      BY <3>1, <3>2, FS_Subset
    <3> QED BY <3>3, FS_CardinalityType
  <2>4. /\ f.kind = "execute" /\ f.at = 0 /\ f.size = Cardinality(Entries)
        /\ f.due = Registered \cap enabled /\ f.hook = h /\ f.plugin = "none"
    BY <2>1 DEF Frame
  <2>5. f \in Frames
    <3>1. PICK size \in Nat : size = Cardinality(Entries)
      BY <2>3
    <3>2. PICK due \in SUBSET PluginObjects : due = Registered \cap enabled
      BY <2>2
    <3>3. f = [kind |-> "execute", hook |-> h, plugin |-> "none", at |-> 0, called |-> 0,
               running |-> FALSE, size |-> size, due |-> due]
      BY <2>1, <3>1, <3>2 DEF Frame
    <3> QED BY <3>3 DEF Frames
  <2>6. DueOf(f)
    <3>1. \A p \in f.due : Ahead(p, 0)
      <4> SUFFICES ASSUME NEW p \in f.due PROVE Ahead(p, 0)
        OBVIOUS
      <4>1. PICK j \in Entries : slots[j] = p
        BY <2>4 DEF Registered
      <4>2. j > 0
        BY <2>2 DEF Entries, Dictionaries
      <4> QED BY <4>1, <4>2 DEF Ahead
    <3> QED BY <2>4, <3>1 DEF DueOf
  <2>7. Calling /\ Len(stack) < MaxDepth /\ Push(f) /\ UNCHANGED <<slots, enabled, owed>>
    BY <1>4, <2>1 DEF ExecuteHooks
  <2>8. IInv' /\ Len(stack') = Len(stack) + 1 /\ Last(stack') = f
    BY <2>4, <2>5, <2>6, <2>7, LoopBegins
  <2> QED BY <2>4, <2>8 DEF Step, Begun
<1>5. ASSUME LoadAll PROVE Step
  <2>1. PICK f : f = Frame("load", "none", "none")
    OBVIOUS
  <2>2. f \in Frames /\ f.kind = "load"
    BY <2>1 DEF Frame, Frames
  <2>3. Calling /\ Push(f) /\ UNCHANGED <<slots, enabled, owed>> /\ Len(stack) + 1 < MaxDepth
    BY <1>5, <2>1 DEF LoadAll
  <2>4. Len(stack) < MaxDepth
    BY <2>3, PluginsAssumption DEF IInv, StackOK
  <2>5. DueOf(f)
    BY <2>2 DEF DueOf
  <2>6. IInv' /\ Len(stack') = Len(stack) + 1 /\ Last(stack') = f
    BY <2>2, <2>3, <2>4, <2>5, LoopBegins
  <2> QED BY <2>2, <2>6 DEF Step, Begun
<1>6. ASSUME CallHandler PROVE Step
  <2>1. PICK top : top = Top
    OBVIOUS
  <2>2. stack # <<>> /\ top \in Frames /\ DueOf(top)
    BY <1>6, <2>1, TopIs DEF CallHandler, IInv, DueOK, Top
  <2>3. PICK f : f = [top EXCEPT !.running = TRUE, !.called = @ + 1]
    OBVIOUS
  <2>4. PICK n \in Nat : n = top.called + 1
    BY <2>2 DEF Frames
  <2>5. f = [top EXCEPT !.running = TRUE, !.called = n]
    BY <2>4, <2>3
  <2>6. /\ f \in Frames /\ f.kind = top.kind /\ f.due = top.due /\ f.size = top.size
        /\ f.plugin = top.plugin /\ f.at = top.at
    BY <2>2, <2>5 DEF Frames
  <2>7. DueOf(f)
    BY <2>2, <2>6 DEF DueOf
  <2>8. stack' = Replace(f) /\ UNCHANGED <<slots, enabled, owed>> /\ f.kind = Top.kind
    BY <1>6, <2>1, <2>3, <2>6 DEF CallHandler
  <2> QED BY <2>2, <2>6, <2>7, <2>8, TopMoves DEF Step
<1>7. ASSUME HandlerEnds PROVE Step
  <2>1. PICK top : top = Top
    OBVIOUS
  <2>2. stack # <<>> /\ top \in Frames /\ DueOf(top)
    BY <1>7, <2>1, TopIs DEF HandlerEnds, IInv, DueOK, Top
  <2>3. PICK f : f = [top EXCEPT !.running = FALSE]
    OBVIOUS
  <2>4. /\ f \in Frames /\ f.kind = top.kind /\ f.due = top.due /\ f.size = top.size
        /\ f.plugin = top.plugin /\ f.at = top.at
    BY <2>2, <2>3 DEF Frames
  <2>5. DueOf(f)
    BY <2>2, <2>4 DEF DueOf
  <2>6. stack' = Replace(f) /\ UNCHANGED <<slots, enabled, owed>> /\ f.kind = Top.kind
    BY <1>7, <2>1, <2>3, <2>4 DEF HandlerEnds
  <2> QED BY <2>2, <2>4, <2>5, <2>6, TopMoves DEF Step
<1>8. ASSUME EndLifecycle \/ EndLoad PROVE Step
  <2>1. /\ stack # <<>> /\ Top.kind # "execute" /\ Return
        /\ UNCHANGED <<slots, enabled, owed>>
    BY <1>8 DEF EndLifecycle, EndLoad
  <2> QED BY <2>1, LoopEnds DEF Step, Ended
<1>9. ASSUME NextEntry PROVE Step
  BY <1>9, EntryStep
<1>10. ASSUME EndExecute \/ ExecuteRaises PROVE Step
  <2>1. /\ stack # <<>> /\ Raise /\ UNCHANGED <<enabled, owed>>
        /\ slots' = IF \E i \in 1 .. Len(stack) - 1 : stack[i].kind = "execute"
                    THEN slots ELSE Compact(slots)
    BY <1>10 DEF EndExecute, ExecuteRaises, Return, Raise
  <2> QED BY <1>10, <2>1, ExecuteEnds DEF Step, Ended
<1>11. ASSUME NextFile PROVE Step
  BY <1>11, FileStep
<1>12. CASE UNCHANGED vars
  <2>1. SlotsOK'
    BY <1>12, SlotsStay DEF IInv, vars
  <2>2. StackOK(stack') /\ stack' = stack
    BY <1>12 DEF IInv, vars
  <2>3. ASSUME NEW i \in DOMAIN stack PROVE DueOf(stack[i])'
    <3>1. DueOf(stack[i])
      BY DEF IInv, DueOK
    <3> QED BY <1>12, <3>1 DEF DueOf, Ahead, Entries, vars
  <2> QED BY <2>1, <2>2, <2>3 DEF Step, IInv, DueOK
<1> QED BY <1>1, <1>2, <1>3, <1>4, <1>5, <1>6, <1>7, <1>8, <1>9, <1>10, <1>11, <1>12 DEF Next

------------------------------------------------------------------------------
(* Whatever handlers do to the registry that is calling them, the          *)
(* invariant holds.                                                        *)
THEOREM Invariance == Spec => []IInv
<1>1. IInv /\ [Next]_vars => IInv'
  BY StepIs DEF Step
<1> QED BY InvInit, <1>1, PTL DEF Spec

(* Plugins are owed a shutdown when they are registered.                   *)
LEMMA MadeStep == MadeOK /\ [Next]_vars => MadeOK'
<1> SUFFICES ASSUME MadeOK, [Next]_vars PROVE MadeOK'
  OBVIOUS
<1>1. ASSUME NEW p \in HaveName, RegisterCalled(p) PROVE MadeOK'
  BY <1>1 DEF RegisterCalled, Register, MadeOK
<1>2. ASSUME NEW name, Unregister(name) PROVE MadeOK'
  BY <1>2 DEF Unregister, MadeOK
<1>3. CASE NextFile
  <2>1. CASE UNCHANGED <<slots, made, owed>>
    BY <2>1 DEF MadeOK
  <2>2. CASE ~ UNCHANGED <<slots, made, owed>>
    <3>1. PICK plugin \in HaveName :
             /\ made' = made \cup {plugin}
             /\ Register(plugin, Replace([Top EXCEPT !.at = Top.at + 1]))
      BY <1>3, <2>2 DEF NextFile
    <3>2. owed' \subseteq owed \cup {plugin}
      BY <3>1 DEF Register
    <3> QED BY <3>1, <3>2 DEF MadeOK
  <2> QED BY <2>1, <2>2
<1>4. ASSUME UNCHANGED <<made, owed>> PROVE MadeOK'
  BY <1>4 DEF MadeOK
<1>5. ASSUME NEW p, SetEnabled(p) PROVE MadeOK'
  BY <1>4, <1>5 DEF SetEnabled
<1>6. ASSUME NEW h, ExecuteHooks(h) PROVE MadeOK'
  BY <1>4, <1>6 DEF ExecuteHooks
<1>7. CASE LoadAll \/ CallHandler \/ HandlerEnds \/ EndLifecycle
  BY <1>4, <1>7 DEF LoadAll, CallHandler, HandlerEnds, EndLifecycle
<1>8. CASE NextEntry \/ EndExecute \/ ExecuteRaises \/ EndLoad
  BY <1>4, <1>8 DEF NextEntry, EndExecute, ExecuteRaises, EndLoad
<1>9. CASE UNCHANGED vars
  BY <1>4, <1>9 DEF vars
<1> QED BY <1>1, <1>2, <1>3, <1>5, <1>6, <1>7, <1>8, <1>9 DEF Next

LEMMA MadeInvariant == Spec => []MadeOK
<1>1. Init => MadeOK
  BY DEF Init, MadeOK
<1> QED BY <1>1, MadeStep, PTL DEF Spec

(* No two entries of the dictionary have one name, deleted ones are there  *)
(* only under a loop, and only a loop over files goes on without a handler *)
(* under loops further in.                                                 *)
THEOREM TypeCorrect == Spec => []TypeOK
BY Invariance, MadeInvariant, InvGivesTypeOK, PTL

(* Unless plugins come or go meanwhile, execute_hooks calls all handlers   *)
(* of every plugin that is registered and enabled all along.               *)
THEOREM AllHandlersReached == Spec => HandlersReached
<1>1. ASSUME IInv, [Next]_vars, Len(stack') < Len(stack), Top.kind = "execute"
      PROVE  Top.due = {} \/ (Top.due = {Top.plugin} /\ ~HandlersLeft(Top))
  <2>1. Len(stack) \in Nat
    BY <1>1 DEF IInv, StackOK
  <2>2. Ended
    BY <1>1, <2>1, StepIs DEF Step, Begun
  <2>3. DueOf(Top)
    BY <1>1, <2>2, TopIs DEF Ended, IInv, DueOK, Top
  <2>4. CASE ExecuteRaises
    BY <1>1, <2>3, <2>4 DEF ExecuteRaises, DueOf
  <2>5. CASE EndExecute
    <3>1. After(Top) = {} /\ ~HandlersLeft(Top)
      BY <2>5 DEF EndExecute
    <3>2. \A p \in Top.due : p = Top.plugin
      <4> SUFFICES ASSUME NEW p \in Top.due, p # Top.plugin PROVE FALSE
        OBVIOUS
      <4>1. PICK j \in Entries : j > Top.at /\ slots[j] = p
        BY <1>1, <2>3 DEF DueOf, Ahead
      <4> QED BY <3>1, <4>1 DEF After
    <3> QED BY <3>1, <3>2
  <2> QED BY <1>1, <2>2, <2>4, <2>5 DEF Ended
<1>2. IInv /\ [Next]_vars =>
         [Len(stack') < Len(stack) /\ Top.kind = "execute"
          => Top.due = {} \/ (Top.due = {Top.plugin} /\ ~HandlersLeft(Top))]_vars
  BY <1>1
<1> QED BY Invariance, <1>2, PTL DEF Spec, HandlersReached

(* A plugin is shut down at most once each time it is registered, and one  *)
(* that was replaced never.                                                *)
THEOREM ShutDownAtMostOnce == Spec => ShutDownOnce
<1>1. ASSUME IInv, [Next]_vars, Len(stack') > Len(stack),
             Last(stack').kind = "lifecycle", Last(stack').hook = "on_shutdown"
      PROVE  Last(stack').plugin \in owed
  <2>1. Len(stack) \in Nat
    BY <1>1 DEF IInv, StackOK
  <2>2. Begun
    BY <1>1, <2>1, StepIs DEF Step, Ended
  <2> QED BY <1>1, <2>2 DEF Begun, IInv, SlotsOK
<1>2. IInv /\ [Next]_vars =>
         [/\ Len(stack') > Len(stack)
          /\ Last(stack').kind = "lifecycle" /\ Last(stack').hook = "on_shutdown"
          => Last(stack').plugin \in owed]_vars
  BY <1>1
<1> QED BY Invariance, <1>2, PTL DEF Spec, ShutDownOnce

==============================================================================
