--------------------------- MODULE LruPolicyProofs ---------------------------
(***************************************************************************)
(* The safety of cache/policy/lru_policy for every set of blocks, sizes    *)
(* and capacities.  The argument follows the code: erasing a node, making  *)
(* room and pushing in front each keep a list well formed, and touch() is  *)
(* these three in this order.                                              *)
(***************************************************************************)
EXTENDS LruPolicy, TLAPS, SequenceTheorems, WellFoundedInduction

(* A non-empty set of natural numbers has a least element.                 *)
LEMMA LeastNatural ==
  ASSUME NEW T \in SUBSET Nat, T # {}
  PROVE  \E x \in T : \A y \in T : x <= y
<1>1. PICK x \in T : \A y \in T : ~(<<y, x>> \in OpToRel(<, Nat))
  BY NatLessThanWellFounded, WFMin
<1>2. \A y \in T : ~(y < x)
  BY <1>1 DEF OpToRel
<1> QED BY <1>2

(* Scores are naturals below a bound, so a worst node exists.              *)
LEMMA ScoreBound ==
  ASSUME NEW n \in Nodes
  PROVE  score(n) \in 0..(MaxBytes * HotUnit)
<1>1. n.bytes \in 0..MaxBytes /\ n.hotness \in {0, 1, 2, 3, 4} /\ MaxBytes \in Nat
  <2>1. n.bytes \in Sizes /\ n.hotness \in Hotnesses
    BY DEF Nodes
  <2>2. Hotnesses \subseteq 0..4
    BY HotnessAssumption DEF HotUnit
  <2>3. \A h \in 0..4 : h \in {0, 1, 2, 3, 4}
    OBVIOUS
  <2> QED BY <2>1, <2>2, <2>3, SizeAssumption, Zenon
<1>2. /\ n.hotness = 0 => score(n) = n.bytes * 4
      /\ n.hotness = 1 => score(n) = n.bytes * 3
      /\ n.hotness = 2 => score(n) = n.bytes * 2
      /\ n.hotness = 3 => score(n) = n.bytes * 1
      /\ n.hotness = 4 => score(n) = n.bytes * 0
  BY <1>1 DEF score, HotUnit
<1> QED BY <1>1, <1>2 DEF HotUnit

(* evict() finds a victim whenever the list is not empty.                  *)
LEMMA VictimExists ==
  ASSUME NEW s \in Seq(Nodes), s # <<>>
  PROVE  VictimAt(s) \in 1..Len(s) /\ Worst(s, VictimAt(s))
<1> DEFINE M == MaxBytes * HotUnit
<1> DEFINE Gap(i) == M - score(s[i])
<1>l. Len(s) \in Nat /\ Len(s) # 0 /\ DOMAIN s = 1..Len(s)
  BY EmptySeq, LenProperties
<1>s. \A i \in 1..Len(s) : score(s[i]) \in 0..M /\ Gap(i) \in Nat
  <2> TAKE i \in 1..Len(s)
  <2>1. s[i] \in Nodes
    BY ElementOfSeq
  <2>2. M \in Nat
    BY SizeAssumption DEF HotUnit
  <2> QED BY <2>1, <2>2, ScoreBound
<1> DEFINE Gaps == {Gap(i) : i \in 1..Len(s)}
<1>1. Gaps \in SUBSET Nat /\ Gaps # {}
  BY <1>l, <1>s
<1>2. PICK g \in Gaps : \A h \in Gaps : g <= h
  BY <1>1, LeastNatural
<1> DEFINE Best == {i \in 1..Len(s) : Gap(i) = g}
<1>3. Best \in SUBSET Nat /\ Best # {}
  BY <1>2, <1>l
<1>4. PICK i \in Best : \A j \in Best : i <= j
  BY <1>3, LeastNatural
<1>m. M \in Nat
  BY SizeAssumption DEF HotUnit
<1>5. ASSUME NEW j \in 1..Len(s)
      PROVE  score(s[j]) < score(s[i]) \/ (score(s[j]) = score(s[i]) /\ i <= j)
  <2>1. Gap(i) <= Gap(j) /\ (Gap(i) = Gap(j) => i <= j)
    BY <1>2, <1>4
  <2>2. score(s[i]) \in Int /\ score(s[j]) \in Int /\ M \in Int
    BY <1>s, <1>m
  <2> QED BY <2>1, <2>2
<1>6. \E k \in DOMAIN s : Worst(s, k)
  BY <1>4, <1>5, <1>l DEF Worst
<1> QED BY <1>6, <1>l DEF VictimAt

-----------------------------------------------------------------------------
Up(i, j) == IF j < i THEN j ELSE j + 1

(* Erasing position i keeps the other nodes, in their order.               *)
LEMMA EraseProperties ==
  ASSUME NEW S, NEW s \in Seq(S), NEW i \in 1..Len(s)
  PROVE  /\ Erase(s, i) \in Seq(S)
         /\ Len(Erase(s, i)) = Len(s) - 1
         /\ \A j \in 1..(Len(s) - 1) : Erase(s, i)[j] = s[Up(i, j)]
<1>l. Len(s) \in Nat /\ \A j \in 1..Len(s) : s[j] \in S
  BY LenProperties, ElementOfSeq
<1> DEFINE a == SubSeq(s, 1, i - 1)
           b == SubSeq(s, i + 1, Len(s))
<1>a. /\ a \in Seq(S) /\ Len(a) = i - 1
      /\ \A j \in 1..(i - 1) : a[j] = s[j]
  <2>1. 1 \in Int /\ i - 1 \in Int /\ \A j \in 1..(i - 1) : s[j] \in S
    BY <1>l
  <2>2. /\ a \in Seq(S) /\ Len(a) = IF 1 <= i - 1 THEN (i - 1) - 1 + 1 ELSE 0
        /\ \A j \in 1..((i - 1) - 1 + 1) : a[j] = s[1 + j - 1]
    BY <2>1, SubSeqProperties
  <2> QED BY <2>2
<1>b. /\ b \in Seq(S) /\ Len(b) = Len(s) - i
      /\ \A j \in 1..(Len(s) - i) : b[j] = s[i + j]
  <2>1. i + 1 \in Int /\ Len(s) \in Int /\ \A j \in (i + 1)..Len(s) : s[j] \in S
    BY <1>l
  <2>2. /\ b \in Seq(S) /\ Len(b) = IF i + 1 <= Len(s) THEN Len(s) - (i + 1) + 1 ELSE 0
        /\ \A j \in 1..(Len(s) - (i + 1) + 1) : b[j] = s[(i + 1) + j - 1]
    BY <2>1, SubSeqProperties
  <2>3. \A j \in 1..(Len(s) - i) : b[j] = s[i + j]
    <3> TAKE j \in 1..(Len(s) - i)
    <3>1. j \in 1..(Len(s) - (i + 1) + 1) /\ (i + 1) + j - 1 = i + j
      BY <1>l
    <3> QED BY <2>2, <3>1
  <2> QED BY <2>2, <2>3, <1>l
<1>c. /\ a \o b \in Seq(S) /\ Len(a \o b) = Len(a) + Len(b)
      /\ \A j \in 1..(Len(a) + Len(b)) : (a \o b)[j] = IF j <= Len(a) THEN a[j] ELSE b[j - Len(a)]
  <2> HIDE DEF a, b
  <2> QED BY <1>a, <1>b, ConcatProperties
<1>d. ASSUME NEW j \in 1..(Len(s) - 1) PROVE (a \o b)[j] = s[Up(i, j)]
  <2> HIDE DEF a, b
  <2>1. CASE j < i
    BY <1>a, <1>b, <1>c, <1>l, <2>1 DEF Up
  <2>2. CASE j >= i
    <3>1. (a \o b)[j] = b[j - (i - 1)] /\ j - (i - 1) \in 1..(Len(s) - i)
      BY <1>a, <1>b, <1>c, <1>l, <2>2
    <3>2. i + (j - (i - 1)) = j + 1
      BY <1>l
    <3>3. b[j - (i - 1)] = s[j + 1]
      BY <1>b, <3>1, <3>2
    <3>4. Up(i, j) = j + 1
      BY <2>2, <1>l DEF Up
    <3> QED BY <3>1, <3>3, <3>4
  <2>3. j < i \/ j >= i
    BY <1>l
  <2> QED BY <2>1, <2>2, <2>3, Zenon
<1>e. Len(a) + Len(b) = Len(s) - 1
  <2> HIDE DEF a, b
  <2> QED BY <1>a, <1>b, <1>l
<1> QED BY <1>c, <1>d, <1>e, Zenon DEF Erase

-----------------------------------------------------------------------------
Lists == [order : Seq(Nodes), map : SUBSET Ids]

(* No block twice, in order of recency, as the latest touch said.          *)
Sorted(s, h) ==
    /\ \A i, j \in 1..Len(s) : s[i].id = s[j].id => i = j
    /\ \A i, j \in 1..Len(s) : i < j => h[s[i].id].at > h[s[j].id].at
    /\ \A i \in 1..Len(s) :
         h[s[i].id].bytes = s[i].bytes /\ h[s[i].id].hotness = s[i].hotness

WellFormed(l, h) ==
    /\ l \in Lists
    /\ l.map = IdsOf(l.order)
    /\ Sorted(l.order, h)

Histories == [Ids -> [at : Nat, bytes : Nat, hotness : Int]]

(* The domain of a list of nodes.                                          *)
LEMMA SeqDomain == ASSUME NEW s \in Seq(Nodes)
                   PROVE  DOMAIN s = 1..Len(s) /\ Len(s) \in Nat
  BY LenProperties

(* Erasing a node and its id keeps the list well formed.                   *)
LEMMA EraseWellFormed ==
  ASSUME NEW l, NEW h, WellFormed(l, h), NEW i \in 1..Len(l.order)
  PROVE  /\ WellFormed([order |-> Erase(l.order, i), map |-> l.map \ {l.order[i].id}], h)
         /\ Len(Erase(l.order, i)) = Len(l.order) - 1
<1> DEFINE s == l.order
           t == Erase(l.order, i)
<1>s. s \in Seq(Nodes) /\ Len(s) \in Nat /\ DOMAIN s = 1..Len(s) /\ i \in 1..Len(s)
  BY SeqDomain DEF WellFormed, Lists
<1>t. /\ t \in Seq(Nodes) /\ Len(t) = Len(s) - 1
      /\ \A j \in 1..(Len(s) - 1) : t[j] = s[Up(i, j)]
  BY <1>s, EraseProperties
<1>d. DOMAIN t = 1..(Len(s) - 1)
  BY <1>t, SeqDomain
<1>h. Sorted(s, h)
  BY DEF WellFormed
<1>m. l.map = {s[j].id : j \in 1..Len(s)} /\ l.map \in SUBSET Ids
  BY <1>s DEF WellFormed, Lists, IdsOf
<1> HIDE DEF s, t
<1>u. \A j \in 1..(Len(s) - 1) : Up(i, j) \in 1..Len(s) /\ Up(i, j) # i
  BY <1>s DEF Up
<1>v. \A j, k \in 1..(Len(s) - 1) : /\ Up(i, j) = Up(i, k) => j = k
                                    /\ j < k => Up(i, j) < Up(i, k)
  BY <1>s DEF Up
<1>w. \A k \in 1..Len(s) : k # i => \E j \in 1..(Len(s) - 1) : Up(i, j) = k
  <2> SUFFICES ASSUME NEW k \in 1..Len(s), k # i
               PROVE  \E j \in 1..(Len(s) - 1) : Up(i, j) = k
    OBVIOUS
  <2>1. CASE k < i
    <3>1. k \in 1..(Len(s) - 1) /\ Up(i, k) = k
      BY <1>s, <2>1 DEF Up
    <3> QED BY <3>1
  <2>2. CASE k > i
    <3>1. k - 1 \in 1..(Len(s) - 1) /\ Up(i, k - 1) = k
      BY <1>s, <2>2 DEF Up
    <3> QED BY <3>1
  <2> QED BY <1>s, <2>1, <2>2
<1>1. Sorted(t, h)
  <2>1. \A j, k \in 1..Len(t) : t[j].id = t[k].id => j = k
    BY <1>t, <1>u, <1>v, <1>h DEF Sorted
  <2>2. \A j, k \in 1..Len(t) : j < k => h[t[j].id].at > h[t[k].id].at
    <3> SUFFICES ASSUME NEW j \in 1..Len(t), NEW k \in 1..Len(t), j < k
                 PROVE  h[t[j].id].at > h[t[k].id].at
      OBVIOUS
    <3>1. /\ Up(i, j) \in 1..Len(s) /\ Up(i, k) \in 1..Len(s) /\ Up(i, j) < Up(i, k)
          /\ t[j] = s[Up(i, j)] /\ t[k] = s[Up(i, k)]
      BY <1>t, <1>u, <1>v
    <3> QED BY <1>h, <3>1, Zenon DEF Sorted
  <2>3. \A j \in 1..Len(t) : h[t[j].id].bytes = t[j].bytes /\ h[t[j].id].hotness = t[j].hotness
    BY <1>t, <1>u, <1>h DEF Sorted
  <2> QED BY <2>1, <2>2, <2>3 DEF Sorted
<1>2. IdsOf(t) = {t[j].id : j \in 1..(Len(s) - 1)}
  BY <1>d DEF IdsOf
<1>3. {t[j].id : j \in 1..(Len(s) - 1)} = l.map \ {s[i].id}
  <2>1. ASSUME NEW j \in 1..(Len(s) - 1) PROVE t[j].id \in l.map \ {s[i].id}
    <3>1. t[j] = s[Up(i, j)] /\ Up(i, j) \in 1..Len(s) /\ Up(i, j) # i
      BY <1>t, <1>u
    <3> QED BY <3>1, <1>m, <1>h, <1>s DEF Sorted
  <2>2. ASSUME NEW x \in l.map \ {s[i].id} PROVE \E j \in 1..(Len(s) - 1) : x = t[j].id
    <3>1. PICK k \in 1..Len(s) : x = s[k].id
      BY <1>m
    <3>2. PICK j \in 1..(Len(s) - 1) : Up(i, j) = k
      BY <1>w, <3>1
    <3> QED BY <1>t, <3>1, <3>2
  <2> QED BY <2>1, <2>2
<1>4. [order |-> t, map |-> l.map \ {s[i].id}] \in Lists
  BY <1>t, <1>m DEF Lists
<1> QED BY <1>1, <1>2, <1>3, <1>4, <1>t DEF WellFormed, s, t

(* remove(id) keeps it, and the id is gone.                                *)
LEMMA RemoveWellFormed ==
  ASSUME NEW l, NEW h, WellFormed(l, h), NEW id \in Ids
  PROVE  /\ WellFormed(remove(l, id), h)
         /\ id \notin remove(l, id).map
         /\ Len(remove(l, id).order) <= Len(l.order)
<1>s. l.order \in Seq(Nodes) /\ Len(l.order) \in Nat /\ DOMAIN l.order = 1..Len(l.order)
  BY SeqDomain DEF WellFormed, Lists
<1>1. CASE id \notin l.map
  BY <1>1, <1>s DEF remove
<1>2. CASE id \in l.map
  <2>1. PICK i \in DOMAIN l.order : l.order[i].id = id
    BY <1>2 DEF WellFormed, IdsOf
  <2>2. \A j \in DOMAIN l.order : l.order[j].id = id => i <= j
    BY <1>s, <2>1 DEF WellFormed, Sorted
  <2>3. Find(l, id) \in 1..Len(l.order) /\ l.order[Find(l, id)].id = id
    BY <1>s, <2>1, <2>2 DEF Find
  <2>4. /\ WellFormed([order |-> Erase(l.order, Find(l, id)), map |-> l.map \ {id}], h)
        /\ Len(Erase(l.order, Find(l, id))) = Len(l.order) - 1
    BY <2>3, EraseWellFormed
  <2> QED BY <1>2, <1>s, <2>4 DEF remove
<1> QED BY <1>1, <1>2

(* evict() keeps it, and makes it one shorter unless it was empty.         *)
LEMMA EvictWellFormed ==
  ASSUME NEW l, NEW h, WellFormed(l, h)
  PROVE  /\ WellFormed(evict(l), h)
         /\ evict(l).map \subseteq l.map
         /\ l.order # <<>> => /\ Len(evict(l).order) = Len(l.order) - 1
                              /\ Victim(l) \in Ids
<1>s. l.order \in Seq(Nodes) /\ Len(l.order) \in Nat /\ DOMAIN l.order = 1..Len(l.order)
  BY SeqDomain DEF WellFormed, Lists
<1>1. CASE l.order = <<>>
  BY <1>1 DEF evict
<1>2. CASE l.order # <<>>
  <2>1. VictimAt(l.order) \in 1..Len(l.order)
    BY <1>2, <1>s, VictimExists
  <2>2. /\ WellFormed([order |-> Erase(l.order, VictimAt(l.order)), map |-> l.map \ {Victim(l)}], h)
        /\ Len(Erase(l.order, VictimAt(l.order))) = Len(l.order) - 1
    BY <2>1, EraseWellFormed DEF Victim
  <2>3. Victim(l) \in Ids
    <3>1. l.order[VictimAt(l.order)] \in Nodes
      BY <1>s, <2>1, ElementOfSeq
    <3> QED BY <3>1 DEF Victim, Nodes
  <2> QED BY <1>2, <2>2, <2>3 DEF evict
<1> QED BY <1>1, <1>2

(* Pushing a block that is not in the list, touched later than all others. *)
LEMMA PushWellFormed ==
  ASSUME NEW l, NEW h \in Histories, WellFormed(l, h),
         NEW id \in Ids, id \notin l.map, NEW b \in Sizes, NEW x \in Hotnesses,
         NEW now \in Nat, \A k \in Ids : h[k].at < now
  PROVE  /\ WellFormed(PushFront(l, Node(id, b, x)),
                       [h EXCEPT ![id] = [at |-> now, bytes |-> b, hotness |-> x]])
         /\ Len(PushFront(l, Node(id, b, x)).order) = Len(l.order) + 1
<1> DEFINE s == l.order
           n == Node(id, b, x)
           t == <<n>> \o s
           g == [h EXCEPT ![id] = [at |-> now, bytes |-> b, hotness |-> x]]
<1>s. s \in Seq(Nodes) /\ Len(s) \in Nat /\ DOMAIN s = 1..Len(s)
  BY SeqDomain DEF WellFormed, Lists
<1>n. n \in Nodes /\ n.id = id /\ n.bytes = b /\ n.hotness = x
  BY DEF Node, Nodes
<1>t. /\ t \in Seq(Nodes) /\ Len(t) = Len(s) + 1
      /\ t[1] = n /\ \A j \in 2..(Len(s) + 1) : t[j] = s[j - 1]
  <2>1. <<n>> \in Seq(Nodes) /\ Len(<<n>>) = 1 /\ <<n>>[1] = n
    BY <1>n
  <2> HIDE DEF n, s
  <2> QED BY <1>s, <2>1, ConcatProperties
<1>d. DOMAIN t = 1..(Len(s) + 1)
  BY <1>t, SeqDomain
<1>i. \A j \in 1..Len(s) : s[j].id \in Ids /\ s[j].id # id
  <2> TAKE j \in 1..Len(s)
  <2>1. s[j] \in Nodes
    BY <1>s, ElementOfSeq
  <2> QED BY <2>1, <1>s DEF Nodes, WellFormed, IdsOf
<1>h. Sorted(s, h) /\ l.map = {s[j].id : j \in 1..Len(s)} /\ l.map \in SUBSET Ids
  BY <1>s DEF WellFormed, IdsOf, Lists
<1>g. /\ g[id].at = now /\ g[id].bytes = b /\ g[id].hotness = x
      /\ \A k \in Ids : k # id => g[k] = h[k]
      /\ \A k \in Ids : h[k].at < now /\ h[k].at \in Nat
  BY DEF Histories
<1> HIDE DEF s, n, t, g
<1>1. Sorted(t, g)
  <2>1. \A j \in 2..(Len(s) + 1) : /\ j - 1 \in 1..Len(s) /\ t[j] = s[j - 1]
                                   /\ t[j].id \in Ids /\ t[j].id # id
                                   /\ g[t[j].id] = h[t[j].id]
    <3> TAKE j \in 2..(Len(s) + 1)
    <3>1. j - 1 \in 1..Len(s) /\ t[j] = s[j - 1]
      BY <1>s, <1>t
    <3> QED BY <3>1, <1>i, <1>g
  <2>2. \A j, k \in 1..Len(t) : t[j].id = t[k].id => j = k
    <3> SUFFICES ASSUME NEW j \in 1..Len(t), NEW k \in 1..Len(t), t[j].id = t[k].id PROVE j = k
      OBVIOUS
    <3>1. CASE j = 1 \/ k = 1
      BY <1>s, <1>t, <1>n, <2>1, <3>1
    <3>2. CASE j \in 2..(Len(s) + 1) /\ k \in 2..(Len(s) + 1)
      <4>1. j - 1 = k - 1
        <5>1. /\ j - 1 \in 1..Len(s) /\ k - 1 \in 1..Len(s)
              /\ s[j - 1].id = s[k - 1].id
          BY <2>1, <3>2
        <5> QED BY <1>h, <5>1, Zenon DEF Sorted
      <4> QED BY <4>1, <3>2, <1>s
    <3> QED BY <1>s, <1>t, <3>1, <3>2
  <2>3. \A j, k \in 1..Len(t) : j < k => g[t[j].id].at > g[t[k].id].at
    <3> SUFFICES ASSUME NEW j \in 1..Len(t), NEW k \in 1..Len(t), j < k
                 PROVE  g[t[j].id].at > g[t[k].id].at
      OBVIOUS
    <3>k. k \in 2..(Len(s) + 1)
      BY <1>s, <1>t
    <3>1. CASE j = 1
      BY <1>t, <1>n, <1>g, <2>1, <3>1, <3>k
    <3>2. CASE j \in 2..(Len(s) + 1)
      <4>1. j - 1 < k - 1
        BY <1>s, <3>2, <3>k
      <4>2. /\ j - 1 \in 1..Len(s) /\ k - 1 \in 1..Len(s)
            /\ t[j] = s[j - 1] /\ t[k] = s[k - 1]
            /\ g[t[j].id] = h[t[j].id] /\ g[t[k].id] = h[t[k].id]
        BY <2>1, <3>2, <3>k
      <4>3. h[s[j - 1].id].at > h[s[k - 1].id].at
        BY <1>h, <4>1, <4>2, Zenon DEF Sorted
      <4> QED BY <4>2, <4>3, Zenon
    <3> QED BY <1>s, <1>t, <3>1, <3>2
  <2>4. \A j \in 1..Len(t) : g[t[j].id].bytes = t[j].bytes /\ g[t[j].id].hotness = t[j].hotness
    <3> TAKE j \in 1..Len(t)
    <3>1. CASE j = 1
      BY <1>t, <1>n, <1>g, <3>1
    <3>2. CASE j \in 2..(Len(s) + 1)
      BY <1>h, <2>1, <3>2 DEF Sorted
    <3> QED BY <1>s, <1>t, <3>1, <3>2
  <2> QED BY <2>2, <2>3, <2>4 DEF Sorted
<1>2. IdsOf(t) = l.map \cup {id}
  <2>1. \A j \in 1..(Len(s) + 1) : t[j].id \in l.map \cup {id}
    <3> TAKE j \in 1..(Len(s) + 1)
    <3>1. CASE j = 1 BY <3>1, <1>t, <1>n
    <3>2. CASE j \in 2..(Len(s) + 1)
      <4>1. j - 1 \in 1..Len(s) /\ t[j] = s[j - 1]
        BY <3>2, <1>s, <1>t
      <4> QED BY <4>1, <1>h
    <3> QED BY <1>s, <3>1, <3>2
  <2>2. \A k \in l.map : \E j \in 1..(Len(s) + 1) : k = t[j].id
    <3> TAKE k \in l.map
    <3>1. PICK j \in 1..Len(s) : k = s[j].id
      BY <1>h
    <3>2. j + 1 \in 2..(Len(s) + 1) /\ t[j + 1] = s[j]
      BY <1>s, <1>t
    <3> QED BY <3>1, <3>2, <1>s
  <2>3. id = t[1].id /\ 1 \in 1..(Len(s) + 1)
    BY <1>t, <1>n, <1>s
  <2> QED BY <1>d, <2>1, <2>2, <2>3 DEF IdsOf
<1>3. [order |-> t, map |-> l.map \cup {id}] \in Lists
  BY <1>t, <1>h DEF Lists
<1>4. PushFront(l, n) = [order |-> t, map |-> l.map \cup {id}]
  BY <1>n DEF PushFront, t, s
<1>5. WellFormed(PushFront(l, n), g)
  BY <1>1, <1>2, <1>3, <1>4 DEF WellFormed
<1>6. Len(PushFront(l, n).order) = Len(s) + 1
  BY <1>4, <1>t
<1> QED BY <1>5, <1>6 DEF n, g, s

-----------------------------------------------------------------------------
Bound == IF capacity = 0 THEN 1 ELSE capacity

IInv ==
    /\ capacity \in Capacities /\ ret \in Ids \cup {NoId}
    /\ clock \in Nat /\ last \in Histories
    /\ \A id \in Ids : last[id].at <= clock
    /\ WellFormed(lru, last)
    /\ Len(lru.order) <= Bound

(* The invariant holds of the empty list.                                  *)
LEMMA InitIInv == Init => IInv
<1> SUFFICES ASSUME Init PROVE IInv
  OBVIOUS
<1>1. <<>> \in Seq(Nodes) /\ Len(<<>>) = 0 /\ DOMAIN <<>> = {}
  BY EmptySeq
<1>2. lru = [order |-> <<>>, map |-> {}] /\ IdsOf(<<>>) = {}
  BY <1>1 DEF Init, EmptyList, IdsOf
<1>3. WellFormed(lru, last)
  BY <1>1, <1>2 DEF WellFormed, Lists, Sorted
<1>4. last \in Histories /\ \A id \in Ids : last[id].at = 0
  BY DEF Init, Histories
<1>5. Len(lru.order) <= Bound
  BY <1>1, <1>2, CapacityAssumption DEF Init, Bound
<1> QED BY <1>3, <1>4, <1>5 DEF Init, IInv

(* touch() keeps it: the new front is the latest touch.                    *)
LEMMA TouchStep ==
  ASSUME IInv, NEW id \in Ids, NEW b \in Sizes, NEW x \in Hotnesses, Touch(id, b, x)
  PROVE  IInv'
<1> DEFINE l1 == remove(lru, id)
           l2 == MakeRoom(l1, capacity)
<1>c. capacity \in Nat /\ Bound \in Nat /\ Bound >= 1 /\ capacity <= Bound
  BY CapacityAssumption DEF IInv, Bound
<1>0. WellFormed(lru, last) /\ Len(lru.order) <= Bound
  BY DEF IInv
<1>1. WellFormed(l1, last) /\ id \notin l1.map /\ Len(l1.order) <= Len(lru.order)
  BY <1>0, RemoveWellFormed
<1>l. Len(lru.order) \in Nat /\ Len(l1.order) \in Nat
  BY <1>0, <1>1, SeqDomain DEF WellFormed, Lists
<1> HIDE DEF l1
<1>2. /\ WellFormed(l2, last) /\ id \notin l2.map
      /\ Len(l2.order) \in Nat /\ Len(l2.order) < Bound
  <2>1. CASE ~(Len(l1.order) >= capacity)
    BY <1>1, <1>c, <1>l, <2>1 DEF MakeRoom
  <2>2. CASE Len(l1.order) >= capacity
    <3>1. l2 = evict(l1)
      BY <2>2 DEF MakeRoom
    <3>2. WellFormed(l2, last) /\ id \notin l2.map
      BY <1>1, <3>1, EvictWellFormed
    <3>3. CASE l1.order = <<>>
      <4>1. l2.order = <<>> /\ Len(<<>>) = 0
        BY <3>1, <3>3, EmptySeq DEF evict
      <4> QED BY <1>c, <3>2, <4>1
    <3>4. CASE l1.order # <<>>
      <4>1. Len(l2.order) = Len(l1.order) - 1 /\ Len(l1.order) # 0
        BY <1>1, <3>1, <3>4, EvictWellFormed, EmptySeq DEF WellFormed, Lists
      <4> QED BY <1>0, <1>1, <1>c, <1>l, <3>2, <4>1
    <3> QED BY <3>3, <3>4
  <2> QED BY <2>1, <2>2
<1> HIDE DEF l2
<1>3. clock + 1 \in Nat /\ \A k \in Ids : last[k].at < clock + 1
  BY DEF IInv, Histories
<1>4. lru' = PushFront(l2, Node(id, b, x))
  BY DEF Touch, touch, l1, l2, Node
<1>5. WellFormed(lru', last') /\ Len(lru'.order) = Len(l2.order) + 1
  <2> DEFINE g == [last EXCEPT ![id] = [at |-> clock + 1, bytes |-> b, hotness |-> x]]
  <2>1. last' = g /\ last \in Histories
    BY DEF Touch, IInv
  <2>2. /\ WellFormed(PushFront(l2, Node(id, b, x)), g)
        /\ Len(PushFront(l2, Node(id, b, x)).order) = Len(l2.order) + 1
    BY <1>2, <1>3, <2>1, PushWellFormed
  <2> HIDE DEF g
  <2> QED BY <1>4, <2>1, <2>2, Zenon
<1>6. last' \in Histories /\ \A k \in Ids : last'[k].at <= clock + 1
  BY <1>3, SizeAssumption, HotnessAssumption DEF IInv, Touch, Histories, HotUnit
<1>7. Len(lru'.order) <= Bound
  BY <1>2, <1>5, <1>c
<1> QED BY <1>3, <1>5, <1>6, <1>7 DEF IInv, Touch, Bound

(* The invariant is inductive.                                             *)
LEMMA IInvStep == IInv /\ [Next]_vars => IInv'
<1> SUFFICES ASSUME IInv, [Next]_vars PROVE IInv'
  OBVIOUS
<1>w. WellFormed(lru, last) /\ Len(lru.order) \in Nat /\ Bound \in Nat /\ clock \in Nat
  BY SeqDomain, CapacityAssumption DEF IInv, WellFormed, Lists, Bound
<1>1. ASSUME NEW id \in Ids, NEW b \in Sizes, NEW x \in Hotnesses, Touch(id, b, x) PROVE IInv'
  BY <1>1, TouchStep
<1>2. ASSUME NEW id \in Ids, Remove(id) PROVE IInv'
  <2>1. WellFormed(lru', last) /\ Len(lru'.order) <= Len(lru.order)
    BY <1>2, <1>w, RemoveWellFormed DEF Remove
  <2>2. Len(lru'.order) \in Nat
    BY <2>1, SeqDomain DEF WellFormed, Lists
  <2>3. Len(lru'.order) <= Bound
    BY <1>w, <2>1, <2>2 DEF IInv
  <2>4. clock' \in Nat /\ \A k \in Ids : last[k].at <= clock'
    BY <1>2 DEF Remove, IInv, Histories
  <2> QED BY <1>2, <2>1, <2>3, <2>4 DEF Remove, IInv, Bound
<1>3. CASE Evict
  <2>1. WellFormed(lru', last)
    BY <1>3, <1>w, EvictWellFormed DEF Evict
  <2>2. Len(lru'.order) <= Bound /\ ret' \in Ids \cup {NoId}
    <3>1. CASE lru.order = <<>>
      BY <1>3, <3>1 DEF Evict, evict, IInv
    <3>2. CASE lru.order # <<>>
      <4>1. Len(lru'.order) = Len(lru.order) - 1 /\ ret' \in Ids
        BY <1>3, <1>w, <3>2, EvictWellFormed DEF Evict
      <4> QED BY <1>w, <4>1 DEF IInv
    <3> QED BY <3>1, <3>2
  <2>3. clock' \in Nat /\ \A k \in Ids : last[k].at <= clock'
    BY <1>3 DEF Evict, IInv, Histories
  <2> QED BY <1>3, <2>1, <2>2, <2>3 DEF Evict, IInv, Bound
<1>4. CASE Finished \/ UNCHANGED vars
  BY <1>4 DEF Finished, vars, IInv, Bound
<1> QED BY <1>1, <1>2, <1>3, <1>4 DEF Next

(* It implies the properties the runs check.                               *)
LEMMA IInvImplies == IInv => TypeOK /\ MapMatchesOrder /\ CapacityBound /\ RecencyOrder
<1> SUFFICES ASSUME IInv PROVE TypeOK /\ MapMatchesOrder /\ CapacityBound /\ RecencyOrder
  OBVIOUS
<1>1. lru.order \in Seq(Nodes) /\ DOMAIN lru.order = 1..Len(lru.order)
  BY SeqDomain DEF IInv, WellFormed, Lists
<1>2. TypeOK
  BY <1>1 DEF IInv, TypeOK, WellFormed, Lists, Histories
<1>3. MapMatchesOrder
  BY <1>1 DEF IInv, WellFormed, Sorted, MapMatchesOrder
<1>4. CapacityBound
  BY DEF IInv, Bound, CapacityBound
<1>5. RecencyOrder
  BY <1>1, Zenon DEF IInv, WellFormed, Sorted, RecencyOrder
<1> QED BY <1>2, <1>3, <1>4, <1>5

(* Every state of the policy is of the expected type.                      *)
THEOREM LruTypeCorrect == Spec => []TypeOK
  BY InitIInv, IInvStep, IInvImplies, PTL DEF Spec

(* map_ and order_ never disagree, so no iterator in map_ dangles.         *)
THEOREM MapAndOrderAgree == Spec => []MapMatchesOrder
  BY InitIInv, IInvStep, IInvImplies, PTL DEF Spec

(* The policy never tracks more blocks than its capacity (one, if built    *)
(* with capacity 0).                                                       *)
THEOREM CapacityIsKept == Spec => []CapacityBound
  BY InitIInv, IInvStep, IInvImplies, PTL DEF Spec

(* The list is always in order of recency.                                 *)
THEOREM ListIsByRecency == Spec => []RecencyOrder
  BY InitIInv, IInvStep, IInvImplies, PTL DEF Spec

-----------------------------------------------------------------------------
(* The block that evict() gives up is the one VictimIsWorst describes, by  *)
(* what the history h says of the tracked blocks.                          *)
LEMMA EvictGivesUpWorst ==
  ASSUME NEW l, NEW h \in Histories, WellFormed(l, h),
         NEW v \in l.map \ evict(l).map, NEW k \in evict(l).map
  PROVE  \/ h[k].bytes * (HotUnit - h[k].hotness) < h[v].bytes * (HotUnit - h[v].hotness)
         \/ /\ h[k].bytes * (HotUnit - h[k].hotness) = h[v].bytes * (HotUnit - h[v].hotness)
            /\ h[k].at < h[v].at
<1> DEFINE s == l.order
           i == VictimAt(s)
<1>s. s \in Seq(Nodes) /\ Len(s) \in Nat /\ DOMAIN s = 1..Len(s)
  BY SeqDomain DEF WellFormed, Lists
<1>1. s # <<>>
  BY DEF evict
<1>2. i \in 1..Len(s) /\ Worst(s, i)
  BY <1>s, <1>1, VictimExists
<1>3. evict(l).map = l.map \ {s[i].id}
  BY <1>1 DEF evict, Victim
<1>4. v = s[i].id
  BY <1>3
<1>5. k \in l.map /\ k # v
  BY <1>3, <1>4
<1>6. PICK j \in 1..Len(s) : k = s[j].id
  BY <1>5, <1>s DEF WellFormed, IdsOf
<1>7. j # i
  BY <1>4, <1>5, <1>6
<1>h. Sorted(s, h)
  BY DEF WellFormed
<1> HIDE DEF s, i
<1>8. /\ score(s[j]) = h[k].bytes * (HotUnit - h[k].hotness)
      /\ score(s[i]) = h[v].bytes * (HotUnit - h[v].hotness)
  BY <1>h, <1>2, <1>4, <1>6, Zenon DEF Sorted, score
<1>9. score(s[j]) < score(s[i]) \/ (score(s[j]) = score(s[i]) /\ i <= j)
  BY <1>2, <1>6, <1>s DEF Worst
<1>10. CASE score(s[j]) < score(s[i])
  BY <1>8, <1>10, Zenon
<1>11. CASE score(s[j]) = score(s[i]) /\ i <= j
  <2>1. i < j
    BY <1>2, <1>6, <1>7, <1>11, <1>s
  <2>2. h[v].at > h[k].at
    BY <1>h, <1>2, <1>4, <1>6, <2>1, Zenon DEF Sorted
  <2>3. v \in Ids /\ k \in Ids
    BY <1>5 DEF WellFormed, Lists
  <2>4. h[k].at < h[v].at
    BY <2>2, <2>3 DEF Histories
  <2> QED BY <1>8, <1>11, <2>4, Zenon
<1> QED BY <1>9, <1>10, <1>11

(* What touch() does to map_: the touched block is in it, and of the       *)
(* others only what evict() gave up is missing.                            *)
LEMMA TouchMap ==
  ASSUME NEW l, NEW c, NEW id, NEW b, NEW x
  PROVE  LET l1 == remove(l, id) IN
         /\ l1.map = l.map \ {id}
         /\ touch(l, c, Node(id, b, x)).map =
              (IF Len(l1.order) >= c THEN evict(l1).map ELSE l1.map) \cup {id}
<1>1. remove(l, id).map = l.map \ {id}
  BY DEF remove
<1>2. Node(id, b, x).id = id
  BY DEF Node
<1> QED BY <1>1, <1>2 DEF touch, PushFront, MakeRoom

(* Retouching shortens the list by one before the capacity is looked at,   *)
(* so that there is room.                                                  *)
LEMMA RetouchStep ==
  ASSUME IInv, NEW id \in Ids, NEW b \in Sizes, NEW x \in Hotnesses,
         Touch(id, b, x), id \in lru.map
  PROVE  Dropped = {}
<1> DEFINE l1 == remove(lru, id)
<1>c. capacity \in Nat /\ Len(lru.order) <= Bound
  BY CapacityAssumption DEF IInv
<1>w. WellFormed(lru, last)
  BY DEF IInv
<1>s. lru.order \in Seq(Nodes) /\ Len(lru.order) \in Nat /\ DOMAIN lru.order = 1..Len(lru.order)
  BY <1>w, SeqDomain DEF WellFormed, Lists
<1>1. PICK i \in 1..Len(lru.order) : lru.order[i].id = id
  BY <1>w, <1>s DEF WellFormed, IdsOf
<1>2. \A j \in DOMAIN lru.order : lru.order[j].id = id => i <= j
  BY <1>w, <1>s, <1>1 DEF WellFormed, Sorted
<1>3. Find(lru, id) \in 1..Len(lru.order)
  BY <1>s, <1>1, <1>2 DEF Find
<1>4. Len(l1.order) = Len(lru.order) - 1
  BY <1>s, <1>3, EraseProperties DEF remove
<1>5. WellFormed(l1, last)
  BY <1>w, RemoveWellFormed
<1>6. /\ l1.map = lru.map \ {id}
      /\ lru'.map = (IF Len(l1.order) >= capacity THEN evict(l1).map ELSE l1.map) \cup {id}
  BY TouchMap DEF Touch
<1> HIDE DEF l1
<1>7. CASE ~(Len(l1.order) >= capacity)
  BY <1>6, <1>7 DEF Dropped
<1>8. CASE Len(l1.order) >= capacity
  <2>1. Len(l1.order) = 0
    <3>1. Len(lru.order) >= 1
      BY <1>s
    <3>2. capacity = 0 => Len(lru.order) <= 1
      BY <1>c DEF Bound
    <3>3. capacity # 0 => Len(lru.order) <= capacity
      BY <1>c DEF Bound
    <3>4. \A n, c \in Nat : /\ n >= 1 /\ n - 1 >= c
                            /\ c = 0 => n <= 1
                            /\ c # 0 => n <= c
                            => n - 1 = 0
      OBVIOUS
    <3>5. Len(lru.order) - 1 >= capacity /\ capacity \in Nat /\ Len(lru.order) \in Nat
      BY <1>4, <1>8, <1>c, <1>s, Zenon
    <3>6. Len(lru.order) - 1 = 0
      BY <3>1, <3>2, <3>3, <3>4, <3>5
    <3> QED BY <1>4, <3>6, Zenon
  <2>2. l1.order = <<>>
    BY <1>5, <2>1, EmptySeq DEF WellFormed, Lists
  <2>3. evict(l1).map = l1.map
    BY <2>2 DEF evict
  <2> QED BY <1>6, <2>3 DEF Dropped
<1> QED BY <1>7, <1>8

(* Of a step that is no remove(), the block that went is the worst one.    *)
LEMMA VictimStep ==
  ASSUME IInv, [Next]_vars, \A id \in Ids : ~Remove(id),
         NEW v \in Dropped, NEW k \in lru.map \cap lru'.map, last'[k] = last[k]
  PROVE  \/ LastScore(k) < LastScore(v)
         \/ LastScore(k) = LastScore(v) /\ last[k].at < last[v].at
<1>w. WellFormed(lru, last) /\ last \in Histories
  BY DEF IInv
<1>d. v \in lru.map /\ v \notin lru'.map /\ k \in Ids
  BY <1>w DEF Dropped, WellFormed, Lists
<1>1. ASSUME NEW id \in Ids, NEW b \in Sizes, NEW x \in Hotnesses, Touch(id, b, x)
      PROVE  \/ LastScore(k) < LastScore(v)
             \/ LastScore(k) = LastScore(v) /\ last[k].at < last[v].at
  <2> DEFINE l1 == remove(lru, id)
  <2>1. /\ l1.map = lru.map \ {id}
        /\ lru'.map = (IF Len(l1.order) >= capacity THEN evict(l1).map ELSE l1.map) \cup {id}
    BY <1>1, TouchMap DEF Touch
  <2>2. WellFormed(l1, last)
    BY <1>w, RemoveWellFormed
  <2>3. k # id
    <3>1. last'[id].at = clock + 1 /\ last[id].at <= clock /\ last[id].at \in Nat /\ clock \in Nat
      BY <1>1, <1>w DEF Touch, IInv, Histories
    <3> QED BY <3>1
  <2> HIDE DEF l1
  <2>4. v \in l1.map \ evict(l1).map /\ k \in evict(l1).map
    BY <1>d, <2>1, <2>3
  <2> QED BY <1>w, <2>2, <2>4, EvictGivesUpWorst DEF LastScore
<1>2. CASE Evict
  <2>1. v \in lru.map \ evict(lru).map /\ k \in evict(lru).map
    BY <1>2, <1>d DEF Evict
  <2> QED BY <1>w, <2>1, EvictGivesUpWorst DEF LastScore
<1>3. CASE Finished \/ UNCHANGED vars
  BY <1>3, <1>d DEF Finished, vars
<1> QED BY <1>1, <1>2, <1>3 DEF Next

(* Touching a tracked block never pushes another one out, at any capacity  *)
(* (lru_policy.cc:14-18).                                                  *)
THEOREM RetouchIsFree == Spec => RetouchKeepsOthers
<1> DEFINE P == \A id \in Ids :
                  (\E b \in Sizes, h \in Hotnesses : Touch(id, b, h)) /\ id \in lru.map
                     => Dropped = {}
<1>1. IInv /\ [Next]_vars => [P]_vars
  BY RetouchStep
<1>2. RetouchKeepsOthers <=> [][P]_vars
  BY PTL DEF RetouchKeepsOthers
<1> HIDE DEF P
<1> QED BY <1>1, <1>2, InitIInv, IInvStep, PTL DEF Spec

(* What is given up for capacity or by evict() has the largest score by    *)
(* the latest touches, and of several is the most recently touched one     *)
(* (lru_policy.cc:40-49).                                                  *)
THEOREM VictimsAreWorst == Spec => VictimIsWorst
<1> DEFINE P == (\A id \in Ids : ~Remove(id)) =>
                  \A v \in Dropped : \A id \in lru.map \cap lru'.map :
                     last'[id] = last[id] =>
                        \/ LastScore(id) < LastScore(v)
                        \/ LastScore(id) = LastScore(v) /\ last[id].at < last[v].at
<1>1. IInv /\ [Next]_vars => [P]_vars
  BY VictimStep
<1>2. VictimIsWorst <=> [][P]_vars
  BY PTL DEF VictimIsWorst
<1> HIDE DEF P
<1> QED BY <1>1, <1>2, InitIInv, IInvStep, PTL DEF Spec

-----------------------------------------------------------------------------
(* The loop of evict() step by step: what a round makes of the position    *)
(* the rounds before it ended with.                                        *)
Round(s, k, i) ==
    IF i = 0 \/ score(s[k]) > score(s[i]) THEN k ELSE i

Scanned(s, f) ==
    f = [k \in 0..Len(s) |-> IF k = 0 THEN 0 ELSE Round(s, k, f[k - 1])]

(* Scan is the last value of a function of which every value is the round  *)
(* made of the one before, if there is such a function.                    *)
LEMMA ScanIsScanned ==
  ASSUME NEW s, NEW g, Scanned(s, g)
  PROVE  \E f : Scanned(s, f) /\ Scan(s) = f[Len(s)]
<1> DEFINE f == CHOOSE f : f = [k \in 0..Len(s) |->
                  IF k = 0 THEN 0
                  ELSE IF f[k - 1] = 0 \/ score(s[k]) > score(s[f[k - 1]])
                       THEN k ELSE f[k - 1]]
<1>1. Scan(s) = f[Len(s)]
  BY DEF Scan
<1>2. Scanned(s, f)
  BY DEF Scanned, Round
<1> QED BY <1>1, <1>2

\* Position i is the worst of the first k.
WorstOf(s, k, i) ==
    /\ i \in 1..k
    /\ \A j \in 1..k : \/ score(s[j]) < score(s[i])
                       \/ score(s[j]) = score(s[i]) /\ i <= j

(* A round turns the worst of the first k - 1 nodes into the worst of the  *)
(* first k.                                                                *)
LEMMA RoundKeepsWorst ==
  ASSUME NEW s \in Seq(Nodes), NEW k \in 1..Len(s), NEW i,
         k = 1 => i = 0, k # 1 => WorstOf(s, k - 1, i)
  PROVE  WorstOf(s, k, Round(s, k, i))
<1>s. \A j \in 1..Len(s) : score(s[j]) \in Int
  BY ScoreBound, ElementOfSeq, SizeAssumption DEF HotUnit
<1>l. Len(s) \in Nat
  BY LenProperties
<1>1. CASE k = 1
  <2>1. Round(s, k, i) = k
    BY <1>1 DEF Round
  <2> QED BY <1>1, <1>s, <2>1 DEF WorstOf
<1>2. CASE k # 1
  <2>1. /\ i \in 1..(k - 1)
        /\ \A j \in 1..(k - 1) : \/ score(s[j]) < score(s[i])
                                 \/ score(s[j]) = score(s[i]) /\ i <= j
    BY <1>2 DEF WorstOf
  <2>2. i # 0 /\ i \in 1..Len(s) /\ k - 1 \in Nat
    BY <1>2, <1>l, <2>1
  <2>3. CASE score(s[k]) > score(s[i])
    <3>1. Round(s, k, i) = k
      BY <2>3 DEF Round
    <3>2. ASSUME NEW j \in 1..k, j # k PROVE score(s[j]) < score(s[k])
      <4>1. j \in 1..(k - 1) /\ j \in 1..Len(s)
        BY <1>l, <3>2
      <4>2. /\ score(s[j]) < score(s[i]) \/ score(s[j]) = score(s[i])
            /\ score(s[j]) \in Int /\ score(s[i]) \in Int /\ score(s[k]) \in Int
        BY <1>s, <2>1, <2>2, <4>1
      <4> QED BY <2>3, <4>2
    <3>3. k \in 1..k
      BY <1>l
    <3> QED BY <3>1, <3>2, <3>3 DEF WorstOf
  <2>4. CASE ~(score(s[k]) > score(s[i]))
    <3>1. Round(s, k, i) = i
      BY <2>2, <2>4 DEF Round
    <3>2. score(s[k]) < score(s[i]) \/ (score(s[k]) = score(s[i]) /\ i <= k)
      <4>1. score(s[k]) \in Int /\ score(s[i]) \in Int /\ i <= k
        BY <1>l, <1>s, <2>1, <2>2
      <4> QED BY <2>4, <4>1
    <3>3. \A j \in 1..k : j = k \/ j \in 1..(k - 1)
      BY <1>l
    <3>4. i \in 1..k
      BY <1>l, <2>1
    <3> QED BY <2>1, <3>1, <3>2, <3>3, <3>4 DEF WorstOf
  <2> QED BY <2>3, <2>4
<1> QED BY <1>1, <1>2

(* No two positions are the worst of the first k: scores are compared      *)
(* strictly.                                                               *)
LEMMA WorstIsUnique ==
  ASSUME NEW s \in Seq(Nodes), NEW k \in 1..Len(s), NEW i, NEW h,
         WorstOf(s, k, i), WorstOf(s, k, h)
  PROVE  i = h
<1>l. Len(s) \in Nat
  BY LenProperties
<1>1. i \in 1..k /\ h \in 1..k /\ i \in 1..Len(s) /\ h \in 1..Len(s)
  BY <1>l DEF WorstOf
<1>2. score(s[i]) \in Int /\ score(s[h]) \in Int
  BY <1>1, ScoreBound, ElementOfSeq, SizeAssumption DEF HotUnit
<1>3. /\ score(s[h]) < score(s[i]) \/ (score(s[h]) = score(s[i]) /\ i <= h)
      /\ score(s[i]) < score(s[h]) \/ (score(s[i]) = score(s[h]) /\ h <= i)
  BY <1>1 DEF WorstOf
<1> QED BY <1>1, <1>2, <1>3

(* What every function of rounds has at k: by the least position at which  *)
(* it would differ.                                                        *)
LEMMA RoundsFindWorst ==
  ASSUME NEW s \in Seq(Nodes), NEW f, f[0] = 0,
         \A k \in 1..Len(s) : f[k] = Round(s, k, f[k - 1])
  PROVE  \A k \in 1..Len(s) : WorstOf(s, k, f[k])
<1>l. Len(s) \in Nat
  BY LenProperties
<1> DEFINE T == {k \in 1..Len(s) : ~WorstOf(s, k, f[k])}
<1> SUFFICES ASSUME T # {} PROVE FALSE
  OBVIOUS
<1>1. T \in SUBSET Nat
  BY <1>l
<1>2. PICK k \in T : \A y \in T : k <= y
  BY <1>1, LeastNatural
<1>3. k \in 1..Len(s) /\ ~WorstOf(s, k, f[k])
  BY <1>2
<1>4. k # 1 => k - 1 \in 1..Len(s) /\ k - 1 \notin T
  BY <1>2, <1>3, <1>l
<1>5. k = 1 => f[k - 1] = 0
  <2>1. k = 1 => k - 1 = 0
    BY <1>3, <1>l
  <2> QED BY <2>1
<1>6. k # 1 => WorstOf(s, k - 1, f[k - 1])
  BY <1>4
<1>7. WorstOf(s, k, Round(s, k, f[k - 1]))
  BY <1>3, <1>5, <1>6, RoundKeepsWorst
<1> QED BY <1>3, <1>7

(* The first k nodes have a worst one: a round makes it from the worst of  *)
(* the first k - 1.                                                        *)
LEMMA WorstExists ==
  ASSUME NEW s \in Seq(Nodes), NEW m \in 1..Len(s)
  PROVE  \E i : WorstOf(s, m, i)
<1>l. Len(s) \in Nat
  BY LenProperties
<1> DEFINE T == {k \in 1..Len(s) : ~\E i : WorstOf(s, k, i)}
<1> SUFFICES ASSUME T # {} PROVE FALSE
  OBVIOUS
<1>1. T \in SUBSET Nat
  BY <1>l
<1>2. PICK k \in T : \A y \in T : k <= y
  BY <1>1, LeastNatural
<1>3. k \in 1..Len(s) /\ ~\E i : WorstOf(s, k, i)
  BY <1>2
<1>4. CASE k = 1
  <2>1. WorstOf(s, k, Round(s, k, 0))
    BY <1>3, <1>4, RoundKeepsWorst
  <2> QED BY <1>3, <2>1
<1>5. CASE k # 1
  <2>1. k - 1 \in 1..Len(s) /\ k - 1 \notin T
    BY <1>2, <1>3, <1>5, <1>l
  <2>2. PICK i : WorstOf(s, k - 1, i)
    BY <2>1
  <2>3. WorstOf(s, k, Round(s, k, i))
    BY <1>3, <1>5, <2>2, RoundKeepsWorst
  <2> QED BY <1>3, <2>3
<1> QED BY <1>4, <1>5

(* There is a function of rounds: its values are the worst positions.      *)
LEMMA ScannedExists ==
  ASSUME NEW s \in Seq(Nodes)
  PROVE  \E g : Scanned(s, g)
<1>l. Len(s) \in Nat
  BY LenProperties
<1> DEFINE W(k) == CHOOSE i : WorstOf(s, k, i)
           g == [k \in 0..Len(s) |-> IF k = 0 THEN 0 ELSE W(k)]
<1>1. \A k \in 1..Len(s) : WorstOf(s, k, W(k))
  BY WorstExists
<1> HIDE DEF W
<1>2. g[0] = 0 /\ \A k \in 1..Len(s) : g[k] = W(k)
  BY <1>l
<1>3. ASSUME NEW k \in 1..Len(s) PROVE W(k) = Round(s, k, g[k - 1])
  <2>1. k = 1 => g[k - 1] = 0
    BY <1>2
  <2>2. k # 1 => k - 1 \in 1..Len(s)
    BY <1>l
  <2>3. k # 1 => WorstOf(s, k - 1, g[k - 1])
    BY <1>1, <1>2, <2>2
  <2> HIDE DEF g
  <2>4. WorstOf(s, k, Round(s, k, g[k - 1]))
    BY <2>1, <2>3, RoundKeepsWorst
  <2> QED BY <1>1, <2>4, WorstIsUnique
<1>4. \A k \in 0..Len(s) : k # 0 => k \in 1..Len(s)
  BY <1>l
<1>5. \A k \in 0..Len(s) : (IF k = 0 THEN 0 ELSE W(k))
                             = (IF k = 0 THEN 0 ELSE Round(s, k, g[k - 1]))
  <2> HIDE DEF g
  <2> QED BY <1>3, <1>4
<1>6. g = [k \in 0..Len(s) |-> IF k = 0 THEN 0 ELSE Round(s, k, g[k - 1])]
  BY <1>5
<1> QED BY <1>6 DEF Scanned

(* The loop of evict() ends with the victim, for every list.               *)
LEMMA ScanIsVictim ==
  ASSUME NEW s \in Seq(Nodes)
  PROVE  Scan(s) = IF s = <<>> THEN 0 ELSE VictimAt(s)
<1>l. Len(s) \in Nat /\ DOMAIN s = 1..Len(s)
  BY LenProperties
<1>1. PICK f : Scanned(s, f) /\ Scan(s) = f[Len(s)]
  BY ScannedExists, ScanIsScanned
<1>2. \A k \in 0..Len(s) : f[k] = IF k = 0 THEN 0 ELSE Round(s, k, f[k - 1])
  BY <1>1 DEF Scanned
<1>3. f[0] = 0 /\ \A k \in 1..Len(s) : f[k] = Round(s, k, f[k - 1])
  <2>1. 0 \in 0..Len(s) /\ \A k \in 1..Len(s) : k \in 0..Len(s) /\ k # 0
    BY <1>l
  <2> QED BY <1>2, <2>1
<1>4. CASE s = <<>>
  BY <1>1, <1>3, <1>4, EmptySeq
<1>5. CASE s # <<>>
  <2>1. Len(s) \in 1..Len(s)
    BY <1>l, <1>5, EmptySeq
  <2>2. WorstOf(s, Len(s), Scan(s))
    BY <1>1, <1>3, <2>1, RoundsFindWorst
  <2>3. WorstOf(s, Len(s), VictimAt(s))
    BY <1>5, <1>l, VictimExists DEF Worst, WorstOf
  <2> QED BY <1>5, <2>1, <2>2, <2>3, WorstIsUnique
<1> QED BY <1>4, <1>5

(* The scan in evict() finds what Worst describes (lru_policy.cc:40-49),   *)
(* for every list the policy can have.                                     *)
THEOREM ScanIsCorrect == Spec => []ScanFindsWorst
<1>1. IInv => ScanFindsWorst
  BY ScanIsVictim DEF IInv, WellFormed, Lists, ScanFindsWorst
<1> QED BY <1>1, InitIInv, IInvStep, PTL DEF Spec
=============================================================================
