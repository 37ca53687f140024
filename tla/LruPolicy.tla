------------------------------ MODULE LruPolicy ------------------------------
(***************************************************************************)
(* cache/policy/lru_policy.{h,cc} as a component: touch, remove and evict  *)
(* in any order, on a policy built with any of the given capacities.       *)
(* clock and last are history: last[id] records the block's latest touch.  *)
(***************************************************************************)
EXTENDS LruList, FiniteSets

CONSTANTS
    Ids,           \* block ids
    NoId,          \* what evict() returns on an empty list (SIZE_MAX)
    Capacities,    \* capacities the policy may be built with
    Sizes,         \* values of touch()'s bytes
    Hotnesses,     \* values of touch()'s hotness, in quarters
    MaxBytes,      \* bound: largest block size
    MaxOps         \* bound: number of calls

ASSUME CapacityAssumption == Capacities \subseteq Nat
ASSUME SizeAssumption == MaxBytes \in Nat /\ Sizes \subseteq 0..MaxBytes
ASSUME HotnessAssumption == Hotnesses \subseteq 0..HotUnit   \* 0.0 to 1.0
ASSUME NoIdAssumption == NoId \notin Ids

VARIABLES
    capacity,   \* capacity_
    lru,        \* order_ and map_
    ret,        \* what the last call of evict() returned
    clock,      \* history: number of calls
    last        \* history: node and time of each id's latest touch

vars == <<capacity, lru, ret, clock, last>>

Nodes == [id : Ids, bytes : Sizes, hotness : Hotnesses]

Init ==
    /\ capacity \in Capacities
    /\ lru = EmptyList
    /\ ret = NoId
    /\ clock = 0
    /\ last = [id \in Ids |-> [at |-> 0, bytes |-> 0, hotness |-> 0]]

Touch(id, bytes, hotness) ==
    /\ clock < MaxOps
    /\ clock' = clock + 1
    /\ lru' = touch(lru, capacity, Node(id, bytes, hotness))
    /\ last' = [last EXCEPT ![id] =
                  [at |-> clock + 1, bytes |-> bytes, hotness |-> hotness]]
    /\ UNCHANGED <<capacity, ret>>

Remove(id) ==
    /\ clock < MaxOps
    /\ clock' = clock + 1
    /\ lru' = remove(lru, id)
    /\ UNCHANGED <<capacity, ret, last>>

Evict ==
    /\ clock < MaxOps
    /\ clock' = clock + 1
    /\ ret' = IF lru.order = <<>> THEN NoId ELSE Victim(lru)
    /\ lru' = evict(lru)
    /\ UNCHANGED <<capacity, last>>

\* The bound on the number of calls has been reached.
Finished == clock = MaxOps /\ UNCHANGED vars

Next ==
    \/ \E id \in Ids, bytes \in Sizes, hotness \in Hotnesses : Touch(id, bytes, hotness)
    \/ \E id \in Ids : Remove(id)
    \/ Evict
    \/ Finished

Spec == Init /\ [][Next]_vars

-----------------------------------------------------------------------------
\* Mutant: the scan takes the last of several equal scores.
ScanNotStrict(order) ==
    LET scan[k \in 0..Len(order)] ==
          IF k = 0 THEN 0
          ELSE IF scan[k - 1] = 0 \/ score(order[k]) >= score(order[scan[k - 1]])
               THEN k ELSE scan[k - 1]
    IN  scan[Len(order)]

\* The loop of evict(), lru_policy.cc:40-49: position 0 stands for end().
Scan(order) ==
    LET scan[k \in 0..Len(order)] ==
          IF k = 0 THEN 0
          ELSE IF scan[k - 1] = 0 \/ score(order[k]) > score(order[scan[k - 1]])
               THEN k ELSE scan[k - 1]
    IN  scan[Len(order)]

-----------------------------------------------------------------------------
TypeOK ==
    /\ capacity \in Capacities
    /\ lru.order \in Seq(Nodes)
    /\ lru.map \subseteq Ids
    /\ ret \in Ids \cup {NoId}
    /\ clock \in Nat
    /\ last \in [Ids -> [at : Nat, bytes : Nat, hotness : Int]]

(* map_ and order_ stay in step (lru_policy.cc:14-24, 53-54): map_ knows   *)
(* exactly the blocks in the list, and no block is in the list twice, so   *)
(* an iterator in map_ never outlives its node.                            *)
MapMatchesOrder ==
    /\ lru.map = IdsOf(lru.order)
    /\ \A i, j \in DOMAIN lru.order : lru.order[i].id = lru.order[j].id => i = j

(* The list never outgrows its capacity, however touches, removals and     *)
(* evictions are mixed (lru_policy.cc:18).  A policy built with capacity 0 *)
(* still tracks one block.                                                 *)
CapacityBound == Len(lru.order) <= IF capacity = 0 THEN 1 ELSE capacity

(* The list is in order of recency and its nodes carry what the latest     *)
(* touch of the block said (lru_policy.cc:23).                             *)
RecencyOrder ==
    /\ \A i, j \in DOMAIN lru.order :
         i < j => last[lru.order[i].id].at > last[lru.order[j].id].at
    /\ \A i \in DOMAIN lru.order :
         LET n == lru.order[i] IN
         last[n.id].bytes = n.bytes /\ last[n.id].hotness = n.hotness

(* The scan in evict() finds what Worst describes.                         *)
ScanFindsWorst ==
    Scan(lru.order) = IF lru.order = <<>> THEN 0 ELSE VictimAt(lru.order)

Dropped == lru.map \ lru'.map
LastScore(id) == last[id].bytes * (HotUnit - last[id].hotness)

(* Touching a tracked block never pushes another one out: its old node is  *)
(* erased before the capacity is looked at (lru_policy.cc:14-18).          *)
RetouchKeepsOthers ==
    [][\A id \in Ids :
         (\E b \in Sizes, h \in Hotnesses : Touch(id, b, h)) /\ id \in lru.map
            => Dropped = {}]_vars

(* A block that is given up for capacity or by evict() has, by its latest  *)
(* touch, the largest score of all tracked blocks other than the one being *)
(* touched; of several it is the most recently touched one.                *)
VictimIsWorst ==
    [][(\A id \in Ids : ~Remove(id)) =>
         \A v \in Dropped : \A id \in lru.map \cap lru'.map :
            last'[id] = last[id] =>
               \/ LastScore(id) < LastScore(v)
               \/ LastScore(id) = LastScore(v) /\ last[id].at < last[v].at]_vars

(* README.md:4, "a hybrid eviction policy that balances least-recently-used*)
(* recency with dynamic file hotness tracking": of the blocks that agree   *)
(* in size and hotness evict() gives up the least recently touched one.    *)
VictimIsLeastRecent ==
    [][Evict =>
         \A v \in Dropped : \A id \in lru'.map :
            last[id].bytes = last[v].bytes /\ last[id].hotness = last[v].hotness
               => last[v].at < last[id].at]_vars
=============================================================================
