------------------------------- MODULE LruList -------------------------------
(***************************************************************************)
(* The data of cache/policy/lru_policy: order_, a list with the most       *)
(* recently touched block in front, and map_, which finds a block's node.  *)
(* A list l is a record: l.order is the sequence of nodes and l.map the    *)
(* set of the ids in map_.  touch() is the only code that stores an        *)
(* iterator, and stores begin() right after push_front, so the node map_   *)
(* knows for an id is the front-most node with that id.                    *)
(*                                                                         *)
(* Hotness is a double in the code; here it is counted in quarters, the    *)
(* granularity of the values in use (0.25 for a prefetched block, 1.0 for  *)
(* one that was read or written), so that score is an integer.             *)
(***************************************************************************)
EXTENDS Integers, Sequences

HotUnit == 4                            \* a hotness of 1.0

\* Mutant: the two arguments are swapped.
NodeSwapped(id, bytes, hotness) == [id |-> id, bytes |-> hotness, hotness |-> bytes]

Node(id, bytes, hotness) == [id |-> id, bytes |-> bytes, hotness |-> hotness]

EmptyList == [order |-> <<>>, map |-> {}]

\* Mutant: hot blocks weigh more.
scoreHotFirst(n) == n.bytes * n.hotness

score(n) == n.bytes * (HotUnit - n.hotness)

IdsOf(order) == {order[i].id : i \in DOMAIN order}

Erase(s, i) == SubSeq(s, 1, i - 1) \o SubSeq(s, i + 1, Len(s))

\* The position of the node that map_ has for id.
Find(l, id) ==
    CHOOSE i \in DOMAIN l.order :
        /\ l.order[i].id = id
        /\ \A j \in DOMAIN l.order : l.order[j].id = id => i <= j

\* remove(); also the first half of touch().
remove(l, id) ==
    IF id \in l.map
    THEN [order |-> Erase(l.order, Find(l, id)), map |-> l.map \ {id}]
    ELSE l

\* Position i is the one the scan of evict() ends with: its score is the
\* largest, and the comparison is strict, so the first of several wins.
Worst(order, i) ==
    \A j \in DOMAIN order :
        \/ score(order[j]) < score(order[i])
        \/ score(order[j]) = score(order[i]) /\ i <= j

VictimAt(order) == CHOOSE i \in DOMAIN order : Worst(order, i)

\* The id that evict() returns when the list is not empty.
Victim(l) == l.order[VictimAt(l.order)].id

\* Mutant: the victim's entry stays in map_.
evictKeepsMap(l) ==
    IF l.order = <<>> THEN l
    ELSE [order |-> Erase(l.order, VictimAt(l.order)), map |-> l.map]

\* The list that evict() leaves.
evict(l) ==
    IF l.order = <<>> THEN l
    ELSE [order |-> Erase(l.order, VictimAt(l.order)),
          map |-> l.map \ {Victim(l)}]

PushFront(l, n) == [order |-> <<n>> \o l.order, map |-> l.map \cup {n.id}]

MakeRoom(l, capacity) == IF Len(l.order) >= capacity THEN evict(l) ELSE l

\* Mutants: room is made before the block's old node is erased; the test
\* against the capacity is off by one; the block keeps its old place.
touchRoomFirst(l, capacity, n) == PushFront(remove(MakeRoom(l, capacity), n.id), n)
touchOneTooMany(l, capacity, n) == PushFront(MakeRoom(remove(l, n.id), capacity + 1), n)
touchInPlace(l, capacity, n) ==
    IF n.id \in l.map
    THEN [l EXCEPT !.order[Find(l, n.id)] = n]
    ELSE PushFront(MakeRoom(l, capacity), n)

touch(l, capacity, n) == PushFront(MakeRoom(remove(l, n.id), capacity), n)
=============================================================================
