---------------------------- MODULE MetadataStore ----------------------------
(***************************************************************************)
(* cache/policy/metadata/metadata_store.cc: the dirty bitmaps, which live  *)
(* in memory and are written to one file per part, and the SQLite table.   *)
(*                                                                         *)
(* markDirtyBlock is called under the cache manager's mu_, flushBitmaps by *)
(* evictors without it, so a flush is split where it touches the file:     *)
(* open with O_TRUNC, then write.  Each SQL statement commits by itself.   *)
(*                                                                         *)
(* A byte is the set of its one bits.  A bit vector is its size and the    *)
(* set of its one bits; size 0 stands for a part that has no vector, which *)
(* flushBitmaps and persistBitmap treat alike.                             *)
(***************************************************************************)
EXTENDS Integers, Sequences

CONSTANTS
    Objects,      \* the hashes of the paths
    Parts, MaxBlock,
    ByteBits,     \* bits in a byte
    Flushers,     \* threads that call flushBitmaps
    Paths, Contents,    \* the table's keys and what put() stores under them
    NoFile, NoTable,
    MaxOps, MaxFaults, MaxCrashes     \* bounds

ASSUME BitsAssumption == ByteBits \in Nat \ {0} /\ MaxBlock \in Nat

Blocks == 0..MaxBlock

VARIABLES
    bitmap,     \* bitmap_
    file,       \* disk: the .dmap files
    fl,         \* the flushes in progress
    handle,     \* db_handle_ is not null
    table,      \* disk: the rows of the table
    ret,        \* what the last call returned
    marked,     \* history: the blocks ever marked
    synced,     \* history: the blocks a successful flush has put on disk
    ops, faults, crashes

maps == <<bitmap, file, fl, marked, synced>>
db == <<handle, table>>
vars == <<maps, db, ret, ops, faults, crashes>>

Idle == [pc |-> "idle"]
NoBits == [size |-> 0, ones |-> {}]
NoRow == [none |-> TRUE]
CacheMetadata == [content : Contents, accessed : {0, 1}, dirty : BOOLEAN]

\* A missing file is no file and a missing table no table.
ASSUME MissingAssumption ==
    /\ NoFile \notin Seq(SUBSET Nat)
    /\ NoTable \notin [Paths -> CacheMetadata \cup {NoRow}]

Init ==
    /\ bitmap = [o \in Objects |-> [k \in Parts |-> NoBits]]
    /\ file = [o \in Objects |-> [k \in Parts |-> NoFile]]
    /\ fl = [f \in Flushers |-> Idle]
    /\ handle = FALSE /\ table = NoTable /\ ret = NoRow
    /\ marked = [o \in Objects |-> {}] /\ synced = [o \in Objects |-> {}]
    /\ ops = 0 /\ faults = 0 /\ crashes = 0

Call == ops < MaxOps /\ ops' = ops + 1 /\ UNCHANGED crashes
Step == UNCHANGED <<ops, crashes>>
Fine == UNCHANGED faults
Fault == faults < MaxFaults /\ faults' = faults + 1

-----------------------------------------------------------------------------
(* The files: bytes from bits and bits from bytes.                         *)

Bytes(n) == (n + ByteBits - 1) \div ByteBits

\* Mutant: bit i of a byte is block i + 1.
encodeShifted(bits) ==
    [j \in 1..Bytes(bits.size) |->
        {b \in 0..(ByteBits - 1) : (j - 1) * ByteBits + b - 1 \in bits.ones}]

\* Mutant: the bits of a byte are counted from one.
encodeFromOne(bits) ==
    [j \in 1..Bytes(bits.size) |->
        {b \in 1..ByteBits : (j - 1) * ByteBits + b - 1 \in bits.ones}]

encode(bits) ==
    [j \in 1..Bytes(bits.size) |->
        {b \in 0..(ByteBits - 1) : (j - 1) * ByteBits + b \in bits.ones}]

\* The blocks a file names.
Named(f) ==
    IF f = NoFile THEN {}
    ELSE {i \in Blocks : \E j \in 1..Len(f) : \E b \in f[j] : i = (j - 1) * ByteBits + b}

\* loadBitmap, which nothing calls, into an empty vector: it takes the size of
\* the file in bytes for one in bits, and reads only the first of the bytes.
loadBitmap(f) ==
    IF f = NoFile THEN NoBits
    ELSE [size |-> Bytes(Len(f)) * ByteBits,
          ones |-> Named(SubSeq(f, 1, Bytes(Len(f))))]

-----------------------------------------------------------------------------
(* The dirty bitmaps.                                                      *)

\* Mutant: the vector keeps its size.
markDirtyBlockUnsized(bits, b) == [bits EXCEPT !.ones = @ \cup {b}]

markDirtyBlock(bits, b) ==
    [size |-> IF bits.size <= b THEN b + 1 ELSE bits.size, ones |-> bits.ones \cup {b}]

Mark(o, k, b) ==
    /\ Call /\ Fine
    /\ bitmap' = [bitmap EXCEPT ![o][k] = markDirtyBlock(@, b)]
    /\ marked' = [marked EXCEPT ![o] = @ \cup {<<k, b>>}]
    /\ UNCHANGED <<file, fl, synced, db, ret>>

WithoutPart(s, k) == {d \in s : d[1] # k}
Ones(o) == {d \in Parts \X Blocks : d[2] \in bitmap[o][d[1]].ones}

\* flushBitmaps: the loop over the parts that have bits, in hash order.
FlushBegin(f, o) ==
    /\ Call /\ Fine
    /\ fl[f] = Idle
    /\ fl' = [fl EXCEPT ![f] = [pc |-> "open", o |-> o, k |-> 0, bytes |-> <<>>, ok |-> TRUE,
                                todo |-> {k \in Parts : bitmap[o][k].size > 0},
                                due |-> Ones(o)]]
    /\ UNCHANGED <<bitmap, file, marked, synced, db, ret>>

\* persistBitmap up to open(O_TRUNC): what is to be written is put together
\* first, then the file is emptied.  What an earlier process left in the file
\* is lost for good here: nothing has loaded it into bitmap_.
PersistOpen(f, k) ==
    /\ Step
    /\ fl[f].pc = "open" /\ k \in fl[f].todo
    /\ LET o == fl[f].o IN
       \/ /\ Fine
          /\ file' = [file EXCEPT ![o][k] = <<>>]
          /\ fl' = [fl EXCEPT ![f] = [@ EXCEPT !.pc = "write", !.k = k,
                                               !.bytes = encode(bitmap[o][k])]]
          /\ synced' = [synced EXCEPT ![o] = WithoutPart(@, k) \cup (@ \cap Ones(o))]
       \/ /\ Fault
          /\ fl' = [fl EXCEPT ![f] = [@ EXCEPT !.ok = FALSE, !.todo = fl[f].todo \ {k}]]
          /\ UNCHANGED <<file, synced>>
    /\ UNCHANGED <<bitmap, marked, db, ret>>

\* The file after a write of data at offset 0 over what another flush of the
\* same part may have put there since the file was emptied.
Overlaid(f, data) ==
    [j \in 1..(IF Len(data) > Len(f) THEN Len(data) ELSE Len(f)) |->
        IF j <= Len(data) THEN data[j] ELSE f[j]]

\* ::write may fail or be short; then the part's bits are gone.  If
\* delete_object has removed the open file, nothing of this is seen again.
PersistWrite(f) ==
    /\ Step
    /\ fl[f].pc \in {"write", "orphan"}
    /\ LET o == fl[f].o
           k == fl[f].k
           after(data) == IF fl[f].pc = "orphan" THEN file
                          ELSE [file EXCEPT ![o][k] = Overlaid(@, data)]
           then(ok) == [fl[f] EXCEPT !.pc = "open", !.k = 0, !.bytes = <<>>, !.ok = ok,
                                     !.todo = fl[f].todo \ {k}] IN
       \/ /\ Fine
          /\ file' = after(fl[f].bytes)
          /\ fl' = [fl EXCEPT ![f] = then(fl[f].ok)]
          /\ UNCHANGED synced
       \/ \E n \in 0..(Len(fl[f].bytes) - 1) :
          /\ Fault
          /\ file' = after(SubSeq(fl[f].bytes, 1, n))
          /\ fl' = [fl EXCEPT ![f] = then(FALSE)]
          /\ synced' = [synced EXCEPT ![o] = WithoutPart(@, k)]
    /\ UNCHANGED <<bitmap, marked, db, ret>>

FlushEnd(f) ==
    /\ Step /\ Fine
    /\ fl[f].pc = "open" /\ fl[f].todo = {}
    /\ fl' = [fl EXCEPT ![f] = Idle]
    /\ ret' = [op |-> "flush", ok |-> fl[f].ok]
    /\ synced' = IF fl[f].ok THEN [synced EXCEPT ![fl[f].o] = @ \cup fl[f].due] ELSE synced
    /\ UNCHANGED <<bitmap, file, marked, db>>

\* BlockStore::delete_object, called by the evictor before its flush, removes
\* the bitmap files too.
DeleteObject(o) ==
    /\ Call /\ Fine
    /\ file' = [file EXCEPT ![o] = [k \in Parts |-> NoFile]]
    /\ synced' = [synced EXCEPT ![o] = {}]
    /\ fl' = [f \in Flushers |-> IF fl[f] # Idle /\ fl[f].o = o
                                 THEN [fl[f] EXCEPT !.due = {}, !.pc = IF @ = "write" THEN "orphan" ELSE @]
                                 ELSE fl[f]]
    /\ UNCHANGED <<bitmap, marked, db, ret>>

-----------------------------------------------------------------------------
(* The table.  Without a handle or a table no statement can be prepared.   *)

Ready == handle /\ table # NoTable
Empty == [p \in Paths |-> NoRow]
Rows == {p \in Paths : table[p] # NoRow}
Bool(op, ok) == ret' = [op |-> op, ok |-> ok]

\* CREATE TABLE IF NOT EXISTS
init(t) == IF t = NoTable THEN Empty ELSE t

\* sqlite3_open fails, CREATE TABLE fails and leaves the handle, or both work.
InitDb ==
    /\ Call
    /\ \/ Fault /\ Bool("init", FALSE) /\ UNCHANGED <<handle, table>>
       \/ Fault /\ Bool("init", FALSE) /\ handle' = TRUE /\ UNCHANGED table
       \/ Fine /\ Bool("init", TRUE) /\ handle' = TRUE /\ table' = init(table)
    /\ UNCHANGED maps

\* A statement that changes rows: t is the table if it succeeds; it fails,
\* without effect, if it cannot be prepared or stepped.
Statement(op, t) ==
    /\ Call
    /\ \/ Ready /\ Fine /\ table' = t /\ Bool(op, TRUE)
       \/ (Ready => Fault) /\ (~Ready => Fine) /\ Bool(op, FALSE) /\ UNCHANGED table
    /\ UNCHANGED <<maps, handle>>

put(p, meta) == Statement("put", [table EXCEPT ![p] = meta])

\* UPDATE ... WHERE path=? succeeds too when no row has that path.
Updated(row, field, v) == IF row = NoRow THEN row ELSE [row EXCEPT ![field] = v]

updateAccessTime(p, t) == Statement("access", [table EXCEPT ![p] = Updated(@, "accessed", t)])

markDirty(p, d) == Statement("dirty", [table EXCEPT ![p] = Updated(@, "dirty", d)])

remove(p) == Statement("remove", [table EXCEPT ![p] = NoRow])

\* get() answers nullopt for a missing row and for a failure alike.
get(p) ==
    /\ Call
    /\ \/ Fine /\ ret' = [op |-> "get", p |-> p,
                          row |-> IF Ready THEN table[p] ELSE NoRow]
       \/ Ready /\ Fault /\ ret' = [op |-> "get", p |-> p, row |-> NoRow]
    /\ UNCHANGED <<maps, db>>

\* allEntries() stops at the first sqlite3_step that fails and returns what it
\* has: any part of the table.
allEntries ==
    /\ Call
    /\ \/ Fine /\ ret' = [op |-> "all", paths |-> IF Ready THEN Rows ELSE {}]
       \/ Ready /\ Fault /\ \E s \in SUBSET Rows : ret' = [op |-> "all", paths |-> s]
    /\ UNCHANGED <<maps, db>>

\* DROP TABLE, whose result is not looked at, and the handle is closed.
cleanup ==
    /\ Call
    /\ IF handle
       THEN /\ handle' = FALSE
            /\ \/ Fine /\ table' = NoTable
               \/ Fault /\ UNCHANGED table
       ELSE Fine /\ UNCHANGED db
    /\ ret' = NoRow
    /\ UNCHANGED maps

-----------------------------------------------------------------------------
\* The process ends, in the destructor or by a crash anywhere, also inside a
\* flush, and is started again: the disk stays.
Restart ==
    /\ crashes < MaxCrashes /\ crashes' = crashes + 1
    /\ bitmap' = [o \in Objects |-> [k \in Parts |-> NoBits]]
    /\ fl' = [f \in Flushers |-> Idle]
    /\ synced' = [o \in Objects |->
                    {d \in synced[o] : ~\E f \in Flushers :
                        fl[f].pc = "write" /\ fl[f].o = o /\ fl[f].k = d[1]}]
    /\ handle' = FALSE /\ ret' = NoRow
    /\ UNCHANGED <<file, table, marked, ops, faults>>

\* Nothing is left to do.
Rest == ops = MaxOps /\ (\A f \in Flushers : fl[f] = Idle) /\ UNCHANGED vars

BitmapStep ==
    \/ \E o \in Objects, k \in Parts, b \in Blocks : Mark(o, k, b)
    \/ \E f \in Flushers, o \in Objects : FlushBegin(f, o)
    \/ \E f \in Flushers, k \in Parts : PersistOpen(f, k)
    \/ \E f \in Flushers : PersistWrite(f) \/ FlushEnd(f)
    \/ \E o \in Objects : DeleteObject(o)

TableStep ==
    \/ InitDb \/ allEntries \/ cleanup
    \/ \E p \in Paths :
         \/ get(p) \/ remove(p)
         \/ \E meta \in CacheMetadata : put(p, meta)
         \/ \E t \in {0, 1} : updateAccessTime(p, t)
         \/ \E d \in BOOLEAN : markDirty(p, d)

Next == BitmapStep \/ TableStep \/ Restart \/ Rest

Spec == Init /\ [][Next]_vars
=============================================================================
