------------------------------- MODULE MCCache -------------------------------
(* Instances of CacheManager for TLC. *)
EXTENDS CacheProperties, TLC

CONSTANTS p1, w1, e1, e2, c1

OnePath == {p1}
OneWorker == {w1}
OneEvictor == {e1}
TwoEvictors == {e1, e2}

\* Within two blocks of two cells, in two parts: all of one, and the end of one
\* with the start of the next.
SmallRanges == {<<0, 2>>, <<1, 2>>}

\* Three blocks of two cells: the first two in a row, which starts a prefetch
\* of the third, all of the third (the remote copy has half of it), a cell of
\* the first.
StreamRanges == {<<0, 4>>, <<4, 2>>, <<1, 1>>}

\* Addresses below 8 fit into a key.  The entry's does, and of the addresses of
\* the copies one: the other one comes out as the address of nothing.
EntryBelow == [p \in Paths |-> 3]
CopiesAnywhere == {5, 14}

\* The lower one only, where nothing is prefetched.
CopyBelow == {5}

NoFaults == [kind \in {"net", "disk"} |-> 0]
AnyFault == [kind \in {"net", "disk"} |-> 1]

Len3 == [p \in Paths |-> 3]
Len4 == [p \in Paths |-> 4]
Len5 == [p \in Paths |-> 5]
=============================================================================
