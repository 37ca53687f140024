--------------------------- MODULE MetadataProofs ----------------------------
(***************************************************************************)
(* Proofs about MetadataStore, for any number of objects, parts, blocks    *)
(* and flushing threads, any size of a byte, and any bounds.               *)
(***************************************************************************)
EXTENDS MetadataProperties, TLAPS

-----------------------------------------------------------------------------
(* The inductive invariant.                                                *)

Row == CacheMetadata \cup {NoRow}

Flush == [pc : {"open", "write", "orphan"}, o : Objects, k : Parts \cup {0},
          bytes : Seq(Byte), ok : BOOLEAN, todo : SUBSET Parts, due : SUBSET (Parts \X Blocks)]

\* The blocks of part k among the marks m.
InPart(m, k) == {b \in Blocks : <<k, b>> \in m}

\* The bits of the bytes s are blocks of M.
BytesIn(s, M) == \A j \in 1..Len(s) : \A b \in s[j] : (j - 1) * ByteBits + b \in M

BitsInv(v, M) == v \in BitVec /\ v.ones \subseteq M /\ \A b \in v.ones : b < v.size

FileInv(s, M) == s = NoFile \/ (s \in Seq(Byte) /\ BytesIn(s, M))

\* What a flush is about to write are bits of marked blocks, and the file it
\* has opened exists unless the object was deleted.
FlushInv(r, m, disk) ==
    \/ r = Idle
    \/ /\ r \in Flush
       /\ r.pc \in {"write", "orphan"} => r.k \in Parts /\ BytesIn(r.bytes, InPart(m[r.o], r.k))
       /\ r.pc = "write" => disk[r.o][r.k] # NoFile

BitmapsInv ==
    /\ bitmap \in [Objects -> [Parts -> BitVec]]
    /\ \A o \in Objects, k \in Parts : BitsInv(bitmap[o][k], InPart(marked[o], k))

FilesInv ==
    /\ file = [o \in Objects |-> [k \in Parts |-> file[o][k]]]
    /\ \A o \in Objects, k \in Parts : FileInv(file[o][k], InPart(marked[o], k))

FlushesInv ==
    /\ fl = [f \in Flushers |-> fl[f]]
    /\ \A f \in Flushers : FlushInv(fl[f], marked, file)

HistoryInv ==
    /\ marked \in [Objects -> SUBSET (Parts \X Blocks)]
    /\ synced \in [Objects -> SUBSET (Parts \X Blocks)]

TableInv ==
    /\ handle \in BOOLEAN
    /\ table = NoTable \/ table \in [Paths -> Row]

MetaInv == BitmapsInv /\ FilesInv /\ FlushesInv /\ HistoryInv /\ TableInv

-----------------------------------------------------------------------------
(* With one flushing thread.                                               *)

SingleFlusher == \A f, g \in Flushers : f = g

\* What has been put on disk is there, or in the bytes about to be written;
\* what a flush is still to put there is in the bitmap, and is written unless
\* something fails.
DurableFlush(r, bits, disk, s) ==
    r # Idle =>
        /\ \A d \in r.due : d[2] \in bits[r.o][d[1]].ones
        /\ r.ok => \A d \in r.due : d[1] \in r.todo \/ d[2] \in Named(disk[r.o][d[1]])
        /\ r.pc = "write" => \A d \in s[r.o] : d[1] = r.k => d[2] \in Named(r.bytes)
        /\ r.pc = "write" => \A d \in r.due : d[1] = r.k => d[2] \in Named(r.bytes)
        /\ r.pc = "orphan" => r.due = {}

DurableInv ==
    /\ FlushedStaysOnDisk
    /\ \A f \in Flushers : DurableFlush(fl[f], bitmap, file, synced)

-----------------------------------------------------------------------------
(* Bits and bytes.                                                         *)

(* Quotient and remainder by the size of a byte.                           *)
LEMMA ByteDivision ==
    ASSUME NEW n \in Nat
    PROVE  /\ n \div ByteBits \in Nat /\ n % ByteBits \in 0..(ByteBits - 1)
           /\ n = (n \div ByteBits) * ByteBits + (n % ByteBits)
  <1>1. n \div ByteBits \in Nat  BY BitsAssumption, SMT
  <1>2. n % ByteBits \in 0..(ByteBits - 1)  BY BitsAssumption, SMT
  <1>3. n = (n \div ByteBits) * ByteBits + (n % ByteBits)  BY BitsAssumption, SMT
  <1> QED  BY <1>1, <1>2, <1>3

(* The number of bytes is a number, at most that of the bits, and there is *)
(* a byte for every bit.                                                   *)
LEMMA BytesBounds ==
    ASSUME NEW n \in Nat
    PROVE  /\ Bytes(n) \in Nat /\ Bytes(n) <= n
           /\ \A i \in Nat : i < n => (i \div ByteBits) + 1 <= Bytes(n)
  <1> DEFINE m == n + ByteBits - 1
             q == m \div ByteBits
             r == m % ByteBits
  <1>1. m \in Nat /\ ByteBits \in Nat /\ ByteBits >= 1
    BY BitsAssumption
  <1>2. q \in Nat /\ r \in 0..(ByteBits - 1) /\ m = q * ByteBits + r
    BY <1>1, ByteDivision
  <1>3. Bytes(n) = q
    BY DEF Bytes
  <1> HIDE DEF q, r
  <1>4. q <= n
    <2> SUFFICES ASSUME q >= n + 1 PROVE FALSE
      BY <1>2
    <2>1. q * ByteBits >= (n + 1) * ByteBits
      BY <1>1, <1>2, SMT
    <2>2. (n + 1) * ByteBits = n * ByteBits + ByteBits
      BY <1>1, SMT
    <2>3. n * ByteBits >= n
      BY <1>1, SMT
    <2> QED  BY <1>1, <1>2, <2>1, <2>2, <2>3, SMT
  <1>5. ASSUME NEW i \in Nat, i < n  PROVE (i \div ByteBits) + 1 <= q
    <2> DEFINE a == i \div ByteBits
               b == i % ByteBits
    <2>1. a \in Nat /\ b \in 0..(ByteBits - 1) /\ i = a * ByteBits + b
      BY ByteDivision
    <2> HIDE DEF a, b
    <2> SUFFICES ASSUME q <= a PROVE FALSE
      BY <1>2, <2>1 DEF a
    <2>2. q * ByteBits <= a * ByteBits
      BY <1>1, <1>2, <2>1, SMT
    <2> QED  BY <1>1, <1>2, <1>5, <2>1, <2>2, SMT
  <1> QED  BY <1>2, <1>3, <1>4, <1>5

(* A bit vector is written as bytes.                                       *)
LEMMA EncodeBytes ==
    ASSUME NEW v \in BitVec
    PROVE  /\ encode(v) \in Seq(Byte) /\ Len(encode(v)) = Bytes(v.size)
           /\ \A j \in 1..Bytes(v.size) :
                encode(v)[j] = {b \in 0..(ByteBits - 1) : (j - 1) * ByteBits + b \in v.ones}
  <1> DEFINE n == Bytes(v.size)
             at(j) == {b \in 0..(ByteBits - 1) : (j - 1) * ByteBits + b \in v.ones}
  <1>1. v.size \in Nat
    BY BitsAssumption DEF BitVec
  <1>2. n \in Nat
    BY <1>1, BytesBounds
  <1>3. encode(v) = [j \in 1..n |-> at(j)]
    BY DEF encode
  <1>4. \A j \in 1..n : at(j) \in Byte
    BY DEF Byte
  <1> HIDE DEF n, at
  <1>5. /\ [j \in 1..n |-> at(j)] \in Seq(Byte) /\ Len([j \in 1..n |-> at(j)]) = n
        /\ \A j \in 1..n : [j2 \in 1..n |-> at(j2)][j] = at(j)
    BY <1>2, <1>4
  <1> QED  BY <1>3, <1>5 DEF n, at

(* The bits written are those of the vector.                               *)
LEMMA EncodeIn ==
    ASSUME NEW v, NEW M, BitsInv(v, M)
    PROVE  encode(v) \in Seq(Byte) /\ BytesIn(encode(v), M)
  <1>1. v \in BitVec /\ v.ones \subseteq M
    BY DEF BitsInv
  <1> QED  BY <1>1, EncodeBytes DEF BytesIn

(* A sequence of bytes is no missing file.                                 *)
LEMMA BytesAreAFile ==
    ASSUME NEW s \in Seq(Byte)
    PROVE  s # NoFile
  <1>1. Byte \subseteq SUBSET Nat
    BY BitsAssumption DEF Byte
  <1> DEFINE B == SUBSET Nat
  <1>2. Byte \subseteq B
    BY <1>1
  <1> HIDE DEF B
  <1>3. s \in Seq(B)
    BY <1>2
  <1> QED  BY <1>3, MissingAssumption DEF B

(* None of the bits is lost (metadata_store.cc:213-221).                   *)
LEMMA EncodeComplete ==
    ASSUME NEW v, NEW M, BitsInv(v, M), NEW b \in v.ones
    PROVE  b \in Named(encode(v))
  <1> DEFINE j == (b \div ByteBits) + 1
             r == b % ByteBits
  <1>1. v \in BitVec /\ b \in Blocks /\ b \in Nat /\ b < v.size /\ v.size \in Nat
    BY BitsAssumption DEF BitsInv, BitVec, Blocks
  <1>2. /\ j \in Nat /\ j >= 1 /\ r \in 0..(ByteBits - 1) /\ b = (j - 1) * ByteBits + r
    <2> DEFINE q == b \div ByteBits
    <2>1. q \in Nat /\ r \in 0..(ByteBits - 1) /\ b = q * ByteBits + r
      BY <1>1, ByteDivision
    <2>2. j = q + 1
      OBVIOUS
    <2> HIDE DEF q, r, j
    <2> QED  BY <2>1, <2>2
  <1>3. j <= Bytes(v.size) /\ Bytes(v.size) \in Nat
    BY <1>1, BytesBounds
  <1> HIDE DEF j, r
  <1>4. j \in 1..Len(encode(v)) /\ r \in encode(v)[j]
    BY <1>1, <1>2, <1>3, EncodeBytes
  <1>5. encode(v) # NoFile
    BY <1>1, EncodeBytes, BytesAreAFile
  <1> QED  BY <1>1, <1>2, <1>4, <1>5 DEF Named

(* The blocks that a file names, when its bits are.                        *)
LEMMA NamedIn ==
    ASSUME NEW s, NEW M, BytesIn(s, M) \/ s = NoFile
    PROVE  Named(s) \subseteq M
  BY DEF BytesIn, Named

(* A part of the bytes has a part of the bits.                             *)
LEMMA SubSeqIn ==
    ASSUME NEW s \in Seq(Byte), NEW M, BytesIn(s, M), NEW n \in 0..Len(s)
    PROVE  SubSeq(s, 1, n) \in Seq(Byte) /\ BytesIn(SubSeq(s, 1, n), M)
  <1> DEFINE B == Byte
             t == SubSeq(s, 1, n)
  <1>0. s \in Seq(B)
    OBVIOUS
  <1> HIDE DEF B
  <1>1. t \in Seq(B) /\ Len(t) = n /\ \A j \in 1..n : t[j] = s[j]
    BY <1>0
  <1> QED  BY <1>1 DEF B, BytesIn

(* Bytes written over others.                                              *)
LEMMA OverlaidBytes ==
    ASSUME NEW s \in Seq(Byte), NEW t \in Seq(Byte)
    PROVE  /\ Overlaid(s, t) \in Seq(Byte)
           /\ Len(Overlaid(s, t)) = IF Len(t) > Len(s) THEN Len(t) ELSE Len(s)
           /\ \A j \in 1..Len(Overlaid(s, t)) :
                Overlaid(s, t)[j] = IF j <= Len(t) THEN t[j] ELSE s[j]
  <1> DEFINE B == Byte
             n == IF Len(t) > Len(s) THEN Len(t) ELSE Len(s)
             at(j) == IF j <= Len(t) THEN t[j] ELSE s[j]
  <1>0. s \in Seq(B) /\ t \in Seq(B)
    OBVIOUS
  <1> HIDE DEF B
  <1>1. n \in Nat /\ \A j \in 1..n : at(j) \in B
    BY <1>0
  <1>2. Overlaid(s, t) = [j \in 1..n |-> at(j)]
    BY DEF Overlaid
  <1> HIDE DEF n, at
  <1>3. /\ [j \in 1..n |-> at(j)] \in Seq(B) /\ Len([j \in 1..n |-> at(j)]) = n
        /\ \A j \in 1..n : [i \in 1..n |-> at(i)][j] = at(j)
    BY <1>1
  <1> QED  BY <1>2, <1>3 DEF n, at, B

(* Their bits are bits of one or the other, and none of the new is lost.   *)
LEMMA OverlaidIn ==
    ASSUME NEW s \in Seq(Byte), NEW t \in Seq(Byte), NEW M, BytesIn(s, M), BytesIn(t, M)
    PROVE  BytesIn(Overlaid(s, t), M)
  <1> SUFFICES ASSUME NEW j \in 1..Len(Overlaid(s, t)), NEW b \in Overlaid(s, t)[j]
               PROVE  (j - 1) * ByteBits + b \in M
    BY DEF BytesIn
  <1>1. CASE j <= Len(t)
    BY <1>1, OverlaidBytes DEF BytesIn
  <1>2. CASE ~(j <= Len(t))
    <2>1. j \in 1..Len(s) /\ Overlaid(s, t)[j] = s[j]
      BY <1>2, OverlaidBytes
    <2> QED  BY <2>1 DEF BytesIn
  <1> QED  BY <1>1, <1>2

(* Writing bytes over older ones keeps what the new bytes name.            *)
LEMMA OverlaidNames ==
    ASSUME NEW s \in Seq(Byte), NEW t \in Seq(Byte)
    PROVE  Named(t) \subseteq Named(Overlaid(s, t))
  <1> SUFFICES ASSUME NEW i \in Named(t) PROVE i \in Named(Overlaid(s, t))
    OBVIOUS
  <1>1. t # NoFile /\ Overlaid(s, t) # NoFile
    BY OverlaidBytes, BytesAreAFile
  <1>2. PICK j \in 1..Len(t) : \E b \in t[j] : i = (j - 1) * ByteBits + b
    BY <1>1 DEF Named
  <1>3. j \in 1..Len(Overlaid(s, t)) /\ Overlaid(s, t)[j] = t[j]
    BY OverlaidBytes
  <1>4. i \in Blocks
    BY <1>1 DEF Named
  <1> QED  BY <1>1, <1>2, <1>3, <1>4 DEF Named

-----------------------------------------------------------------------------
(* More marks leave true what the parts of the invariant say of bytes,     *)
(* files and vectors.                                                      *)
LEMMA InMonotone ==
    ASSUME NEW M, NEW N, M \subseteq N
    PROVE  /\ \A s : BytesIn(s, M) => BytesIn(s, N)
           /\ \A s : FileInv(s, M) => FileInv(s, N)
           /\ \A v : BitsInv(v, M) => BitsInv(v, N)
  BY DEF BytesIn, FileInv, BitsInv

(* The marks of a part grow with the marks of its object.                  *)
LEMMA InPartMonotone ==
    ASSUME NEW m, NEW n, m \subseteq n, NEW k
    PROVE  InPart(m, k) \subseteq InPart(n, k)
  BY DEF InPart

(* Flushes that go on as they are, when no file disappears.                *)
LEMMA FlushKept ==
    ASSUME NEW r, NEW m, NEW n, NEW disk, NEW after, FlushInv(r, m, disk),
           \A o \in Objects : m[o] \subseteq n[o],
           \A o \in Objects, k \in Parts : disk[o][k] # NoFile => after[o][k] # NoFile
    PROVE  FlushInv(r, n, after)
  <1>1. CASE r = Idle
    BY <1>1 DEF FlushInv
  <1>2. CASE r # Idle
    <2>1. /\ r \in Flush /\ r.o \in Objects
          /\ r.pc \in {"write", "orphan"} => r.k \in Parts /\ BytesIn(r.bytes, InPart(m[r.o], r.k))
          /\ r.pc = "write" => disk[r.o][r.k] # NoFile
      BY <1>2 DEF FlushInv, Flush
    <2>2. InPart(m[r.o], r.k) \subseteq InPart(n[r.o], r.k)
      BY <2>1, InPartMonotone
    <2>3. r.pc \in {"write", "orphan"} => BytesIn(r.bytes, InPart(n[r.o], r.k))
      BY <2>1, <2>2, InMonotone
    <2> QED  BY <2>1, <2>3 DEF FlushInv
  <1> QED  BY <1>1, <1>2

(* One flush goes on, the marks and the other flushes stay.                *)
LEMMA FlushGoesOn ==
    ASSUME MetaInv, NEW f \in Flushers, NEW r, fl' = [fl EXCEPT ![f] = r],
           FlushInv(r, marked, file'), UNCHANGED marked,
           \A o \in Objects, k \in Parts : file[o][k] # NoFile => file'[o][k] # NoFile
    PROVE  FlushesInv'
  <1>1. fl = [g \in Flushers |-> fl[g]] /\ \A g \in Flushers : FlushInv(fl[g], marked, file)
    BY DEF MetaInv, FlushesInv
  <1>2. fl' = [g \in Flushers |-> fl'[g]]
    BY <1>1
  <1>3. ASSUME NEW g \in Flushers PROVE FlushInv(fl'[g], marked, file')
    <2>1. CASE g = f
      BY <1>1, <2>1
    <2>2. CASE g # f
      <3>1. fl'[g] = fl[g]
        BY <1>1, <2>2
      <3>2. \A o \in Objects : marked[o] \subseteq marked[o]
        OBVIOUS
      <3> QED  BY <1>1, <3>1, <3>2, FlushKept
    <2> QED  BY <2>1, <2>2
  <1> QED  BY <1>2, <1>3 DEF FlushesInv

-----------------------------------------------------------------------------
(* The steps.                                                              *)

(* The invariant holds of an empty directory.                              *)
LEMMA InitMeta == Init => MetaInv
  <1> SUFFICES ASSUME Init PROVE MetaInv
    OBVIOUS
  <1>1. NoBits \in BitVec /\ \A M : BitsInv(NoBits, M)
    BY BitsAssumption DEF NoBits, BitVec, BitsInv
  <1>2. BitmapsInv
    BY <1>1 DEF Init, BitmapsInv
  <1>3. FilesInv
    BY DEF Init, FilesInv, FileInv
  <1>4. FlushesInv
    BY DEF Init, FlushesInv, FlushInv
  <1>5. HistoryInv
    BY DEF Init, HistoryInv
  <1>6. TableInv
    BY DEF Init, TableInv, Row
  <1> QED  BY <1>2, <1>3, <1>4, <1>5, <1>6 DEF MetaInv

(* What leaves the database alone keeps the part about the table.          *)
LEMMA TableKept == ASSUME TableInv, UNCHANGED db PROVE TableInv'
  BY DEF TableInv, db

(* What leaves the bitmaps alone keeps the parts about them.               *)
LEMMA MapsKept ==
    ASSUME MetaInv, UNCHANGED maps
    PROVE  BitmapsInv' /\ FilesInv' /\ FlushesInv' /\ HistoryInv'
  BY DEF MetaInv, maps, BitmapsInv, FilesInv, FlushesInv, HistoryInv

(* A vector grows to hold the bit that is set.                             *)
LEMMA MarkDirtyBits ==
    ASSUME NEW v, NEW M, BitsInv(v, M), NEW b \in Blocks, b \in M
    PROVE  BitsInv(markDirtyBlock(v, b), M)
  <1> DEFINE w == markDirtyBlock(v, b)
  <1>1. /\ v.size \in 0..(MaxBlock + 1) /\ v.ones \subseteq Blocks /\ v.ones \subseteq M
        /\ \A c \in v.ones : c < v.size
        /\ b \in 0..MaxBlock /\ MaxBlock \in Nat
    BY BitsAssumption DEF BitsInv, BitVec, Blocks
  <1>2. w.size = (IF v.size <= b THEN b + 1 ELSE v.size) /\ w.ones = v.ones \cup {b}
    BY DEF markDirtyBlock
  <1>3. w.size \in 0..(MaxBlock + 1) /\ w.ones \subseteq Blocks /\ w.ones \subseteq M
    BY <1>1, <1>2
  <1>4. \A c \in w.ones : c < w.size
    BY <1>1, <1>2 DEF Blocks
  <1>5. w \in BitVec
    BY <1>3 DEF BitVec, markDirtyBlock
  <1> QED  BY <1>3, <1>4, <1>5 DEF BitsInv

(* markDirtyBlock keeps the invariant: the bit it sets is marked in the    *)
(* same step.                                                              *)
LEMMA MarkMeta ==
    ASSUME MetaInv, NEW o \in Objects, NEW k \in Parts, NEW b \in Blocks, Mark(o, k, b)
    PROVE  MetaInv'
  <1>1. /\ bitmap' = [bitmap EXCEPT ![o][k] = markDirtyBlock(@, b)]
        /\ marked' = [marked EXCEPT ![o] = @ \cup {<<k, b>>}]
        /\ UNCHANGED <<file, fl, synced, db>>
    BY DEF Mark
  <1>2. HistoryInv'
    BY <1>1 DEF MetaInv, HistoryInv
  <1>3. /\ \A q \in Objects : marked[q] \subseteq marked'[q]
        /\ b \in InPart(marked'[o], k)
    BY <1>1 DEF MetaInv, HistoryInv, InPart
  <1>4. \A q \in Objects, j \in Parts : InPart(marked[q], j) \subseteq InPart(marked'[q], j)
    BY <1>3, InPartMonotone
  <1>5. BitmapsInv'
    <2>1. \A q \in Objects, j \in Parts : BitsInv(bitmap[q][j], InPart(marked'[q], j))
      BY <1>4, InMonotone DEF MetaInv, BitmapsInv
    <2> DEFINE v == markDirtyBlock(bitmap[o][k], b)
    <2>2. BitsInv(v, InPart(marked'[o], k))
      BY <1>3, <2>1, MarkDirtyBits
    <2>3. v \in BitVec
      BY <2>2 DEF BitsInv
    <2>4. bitmap' = [bitmap EXCEPT ![o][k] = v]
      BY <1>1
    <2> HIDE DEF v
    <2>5. bitmap' \in [Objects -> [Parts -> BitVec]]
      BY <2>3, <2>4 DEF MetaInv, BitmapsInv
    <2>6. \A q \in Objects, j \in Parts :
            bitmap'[q][j] = IF q = o /\ j = k THEN v ELSE bitmap[q][j]
      BY <2>4 DEF MetaInv, BitmapsInv
    <2> QED  BY <2>1, <2>2, <2>5, <2>6 DEF BitmapsInv
  <1>6. FilesInv'
    BY <1>1, <1>4, InMonotone DEF MetaInv, FilesInv
  <1>7. FlushesInv'
    <2>1. ASSUME NEW f \in Flushers PROVE FlushInv(fl[f], marked', file)
      BY <1>3, FlushKept DEF MetaInv, FlushesInv
    <2> QED  BY <1>1, <2>1 DEF MetaInv, FlushesInv
  <1>8. TableInv'
    BY <1>1, TableKept DEF MetaInv
  <1> QED  BY <1>2, <1>5, <1>6, <1>7, <1>8 DEF MetaInv

(* What the invariant says of a flush in progress.                         *)
LEMMA InFlush ==
    ASSUME MetaInv, NEW f \in Flushers, fl[f] # Idle
    PROVE  /\ fl[f] \in Flush /\ fl[f].o \in Objects /\ fl[f].bytes \in Seq(Byte)
           /\ fl[f].ok \in BOOLEAN /\ fl[f].todo \in SUBSET Parts
           /\ fl[f].due \in SUBSET (Parts \X Blocks)
           /\ fl[f].pc \in {"write", "orphan"} =>
                 fl[f].k \in Parts /\ BytesIn(fl[f].bytes, InPart(marked[fl[f].o], fl[f].k))
           /\ fl[f].pc = "write" => file[fl[f].o][fl[f].k] # NoFile
  BY DEF MetaInv, FlushesInv, FlushInv, Flush

(* Entering flushBitmaps keeps it: every bit now due is marked.            *)
LEMMA FlushBeginMeta ==
    ASSUME MetaInv, NEW f \in Flushers, NEW o \in Objects, FlushBegin(f, o)
    PROVE  MetaInv'
  <1> DEFINE todo == {k \in Parts : bitmap[o][k].size > 0}
             due == Ones(o)
             bytes == <<>>
             r == [pc |-> "open", o |-> o, k |-> 0, bytes |-> bytes, ok |-> TRUE,
                   todo |-> todo, due |-> due]
  <1>1. fl' = [fl EXCEPT ![f] = r] /\ UNCHANGED <<bitmap, file, marked, synced, db>>
    BY DEF FlushBegin
  <1>2. todo \in SUBSET Parts /\ due \in SUBSET (Parts \X Blocks) /\ bytes \in Seq(Byte)
    BY DEF Ones
  <1> HIDE DEF todo, due, bytes
  <1>3. r \in Flush /\ r.pc = "open"
    BY <1>2 DEF Flush
  <1> HIDE DEF r
  <1>4. FlushInv(r, marked, file')
    BY <1>3 DEF FlushInv
  <1>5. FlushesInv'
    BY <1>1, <1>4, FlushGoesOn
  <1>6. BitmapsInv' /\ FilesInv' /\ HistoryInv'
    BY <1>1 DEF MetaInv, BitmapsInv, FilesInv, HistoryInv
  <1>7. TableInv'
    BY <1>1, TableKept DEF MetaInv
  <1> QED  BY <1>5, <1>6, <1>7 DEF MetaInv

(* One file is replaced.                                                   *)
LEMMA FileReplaced ==
    ASSUME MetaInv, NEW o \in Objects, NEW k \in Parts, NEW s \in Seq(Byte),
           BytesIn(s, InPart(marked[o], k)), UNCHANGED marked,
           file' = [file EXCEPT ![o][k] = s]
    PROVE  /\ FilesInv'
           /\ \A q \in Objects, j \in Parts :
                file'[q][j] = IF q = o /\ j = k THEN s ELSE file[q][j]
           /\ \A q \in Objects, j \in Parts : file[q][j] # NoFile => file'[q][j] # NoFile
  <1>1. /\ file = [q \in Objects |-> [j \in Parts |-> file[q][j]]]
        /\ \A q \in Objects, j \in Parts : FileInv(file[q][j], InPart(marked[q], j))
    BY DEF MetaInv, FilesInv
  <1>2. s # NoFile
    BY BytesAreAFile
  <1>3. /\ file' = [q \in Objects |-> [j \in Parts |-> file'[q][j]]]
        /\ \A q \in Objects, j \in Parts :
                file'[q][j] = IF q = o /\ j = k THEN s ELSE file[q][j]
    BY <1>1
  <1>4. \A q \in Objects, j \in Parts : FileInv(file'[q][j], InPart(marked[q], j))
    BY <1>1, <1>3 DEF FileInv
  <1> QED  BY <1>2, <1>3, <1>4 DEF FilesInv

(* Encoding a part and truncating its file keep it: the bytes name marked  *)
(* blocks only, and an empty file names none.                              *)
LEMMA PersistOpenMeta ==
    ASSUME MetaInv, NEW f \in Flushers, NEW k \in Parts, PersistOpen(f, k)
    PROVE  MetaInv'
  <1> DEFINE o == fl[f].o
             todo == fl[f].todo \ {k}
             bytes == encode(bitmap[o][k])
             r == [fl[f] EXCEPT !.pc = "write", !.k = k, !.bytes = bytes]
             s == [fl[f] EXCEPT !.ok = FALSE, !.todo = todo]
  <1>1. fl[f].pc = "open" /\ UNCHANGED <<bitmap, marked, db>>
    BY DEF PersistOpen
  <1>2. fl[f] \in Flush /\ o \in Objects /\ todo \in SUBSET Parts
    BY <1>1, InFlush DEF Idle
  <1>3. BitmapsInv' /\ TableInv'
    BY <1>1, TableKept DEF MetaInv, BitmapsInv
  <1>4. CASE /\ file' = [file EXCEPT ![o][k] = <<>>] /\ fl' = [fl EXCEPT ![f] = r]
             /\ synced' = [synced EXCEPT ![o] = WithoutPart(@, k) \cup (@ \cap Ones(o))]
    <2>1. /\ bytes \in Seq(Byte) /\ BytesIn(bytes, InPart(marked[o], k))
      BY <1>2, EncodeIn DEF MetaInv, BitmapsInv
    <2>2. <<>> \in Seq(Byte) /\ BytesIn(<<>>, InPart(marked[o], k))
      BY DEF BytesIn
    <2> HIDE DEF o
    <2>3. /\ FilesInv'
          /\ \A q \in Objects, j \in Parts :
                file'[q][j] = IF q = o /\ j = k THEN <<>> ELSE file[q][j]
          /\ \A q \in Objects, j \in Parts : file[q][j] # NoFile => file'[q][j] # NoFile
      BY <1>1, <1>2, <1>4, <2>2, FileReplaced
    <2>4. <<>> # NoFile
      BY <2>2, BytesAreAFile
    <2> HIDE DEF bytes
    <2>5. r \in Flush /\ r.pc = "write" /\ r.k = k /\ r.bytes = bytes /\ r.o = o
      BY <1>2, <2>1 DEF Flush, o
    <2>6. FlushInv(r, marked, file')
      <3> HIDE DEF r
      <3> QED  BY <1>2, <2>1, <2>3, <2>4, <2>5 DEF FlushInv
    <2>7. FlushesInv'
      <3> HIDE DEF r
      <3> QED  BY <1>1, <1>4, <2>3, <2>6, FlushGoesOn
    <2>8. HistoryInv'
      <3>1. WithoutPart(synced[o], k) \cup (synced[o] \cap Ones(o)) \in SUBSET (Parts \X Blocks)
        BY <1>2 DEF MetaInv, HistoryInv, WithoutPart
      <3> QED  BY <1>1, <1>4, <3>1 DEF MetaInv, HistoryInv
    <2> QED  BY <1>3, <2>3, <2>7, <2>8 DEF MetaInv
  <1>5. CASE fl' = [fl EXCEPT ![f] = s] /\ UNCHANGED <<file, synced>>
    <2> HIDE DEF todo
    <2>1. s \in Flush /\ s.pc = "open"
      BY <1>1, <1>2 DEF Flush
    <2> HIDE DEF s
    <2>2. FlushInv(s, marked, file')
      BY <2>1 DEF FlushInv
    <2>3. FlushesInv'
      BY <1>1, <1>5, <2>2, FlushGoesOn
    <2>4. FilesInv' /\ HistoryInv'
      BY <1>1, <1>5 DEF MetaInv, FilesInv, HistoryInv
    <2> QED  BY <1>3, <2>3, <2>4 DEF MetaInv
  <1> QED  BY <1>4, <1>5 DEF PersistOpen

(* The file after a write, of all or some of the bytes.                    *)
LEMMA FileWritten ==
    ASSUME MetaInv, NEW f \in Flushers, fl[f].pc = "write", NEW n \in 0..Len(fl[f].bytes),
           UNCHANGED marked,
           file' = [file EXCEPT ![fl[f].o][fl[f].k] = Overlaid(@, SubSeq(fl[f].bytes, 1, n))]
    PROVE  /\ FilesInv'
           /\ \A q \in Objects, j \in Parts : file[q][j] # NoFile => file'[q][j] # NoFile
           /\ \A q \in Objects, j \in Parts :
                file'[q][j] = IF q = fl[f].o /\ j = fl[f].k
                              THEN Overlaid(file[q][j], SubSeq(fl[f].bytes, 1, n))
                              ELSE file[q][j]
  <1> DEFINE o == fl[f].o
             k == fl[f].k
             old == file[o][k]
             data == SubSeq(fl[f].bytes, 1, n)
             new == Overlaid(old, data)
  <1>1. /\ o \in Objects /\ k \in Parts /\ fl[f].bytes \in Seq(Byte)
        /\ BytesIn(fl[f].bytes, InPart(marked[o], k)) /\ old # NoFile
    BY InFlush DEF Idle
  <1>2. old \in Seq(Byte) /\ BytesIn(old, InPart(marked[o], k))
    BY <1>1 DEF MetaInv, FilesInv, FileInv
  <1>3. data \in Seq(Byte) /\ BytesIn(data, InPart(marked[o], k))
    BY <1>1, SubSeqIn
  <1>4. new \in Seq(Byte) /\ BytesIn(new, InPart(marked[o], k))
    <2> HIDE DEF old, data
    <2> QED  BY <1>2, <1>3, OverlaidBytes, OverlaidIn
  <1>5. file' = [file EXCEPT ![o][k] = new]
    OBVIOUS
  <1>6. new = Overlaid(file[o][k], data)
    OBVIOUS
  <1> HIDE DEF o, k, new
  <1>7. /\ FilesInv'
        /\ \A q \in Objects, j \in Parts :
                file'[q][j] = IF q = o /\ j = k THEN new ELSE file[q][j]
        /\ \A q \in Objects, j \in Parts : file[q][j] # NoFile => file'[q][j] # NoFile
    BY <1>1, <1>4, <1>5, FileReplaced
  <1> QED  BY <1>6, <1>7 DEF o, k

(* All of the bytes are a part of the bytes.                               *)
LEMMA AllOfBytes ==
    ASSUME NEW s \in Seq(Byte)
    PROVE  Len(s) \in 0..Len(s) /\ SubSeq(s, 1, Len(s)) = s
  <1> DEFINE B == Byte
  <1>1. s \in Seq(B)
    OBVIOUS
  <1> HIDE DEF B
  <1> QED  BY <1>1

(* What is written, when the file is still there: the bytes up to some n,  *)
(* and all of them if the write succeeded.                                 *)
LEMMA PersistWriteCases ==
    ASSUME MetaInv, NEW f \in Flushers, PersistWrite(f)
    PROVE  \E n \in 0..Len(fl[f].bytes), ok \in BOOLEAN :
             /\ IF fl[f].pc = "orphan" THEN UNCHANGED file
                ELSE file' = [file EXCEPT ![fl[f].o][fl[f].k] =
                                    Overlaid(@, SubSeq(fl[f].bytes, 1, n))]
             /\ fl' = [fl EXCEPT ![f] = [fl[f] EXCEPT !.pc = "open", !.k = 0, !.bytes = <<>>,
                                                      !.ok = ok, !.todo = fl[f].todo \ {fl[f].k}]]
             /\ \/ n = Len(fl[f].bytes) /\ ok = fl[f].ok /\ UNCHANGED synced
                \/ /\ ~ok
                   /\ synced' = [synced EXCEPT ![fl[f].o] = WithoutPart(@, fl[f].k)]
  <1>1. fl[f].pc \in {"write", "orphan"}
    BY DEF PersistWrite
  <1>2. fl[f].bytes \in Seq(Byte) /\ fl[f].ok \in BOOLEAN
    BY <1>1, InFlush DEF Idle
  <1>3. Len(fl[f].bytes) \in 0..Len(fl[f].bytes) /\ SubSeq(fl[f].bytes, 1, Len(fl[f].bytes)) = fl[f].bytes
    BY <1>2, AllOfBytes
  <1>4. Len(fl[f].bytes) \in Nat
    BY <1>2
  <1>5. \A n \in 0..(Len(fl[f].bytes) - 1) : n \in 0..Len(fl[f].bytes)
    BY <1>4
  <1>6. CASE /\ file' = (IF fl[f].pc = "orphan" THEN file
                         ELSE [file EXCEPT ![fl[f].o][fl[f].k] = Overlaid(@, fl[f].bytes)])
             /\ fl' = [fl EXCEPT ![f] = [fl[f] EXCEPT !.pc = "open", !.k = 0, !.bytes = <<>>,
                                !.ok = fl[f].ok, !.todo = fl[f].todo \ {fl[f].k}]]
             /\ UNCHANGED synced
    BY <1>2, <1>3, <1>6
  <1>7. CASE \E n \in 0..(Len(fl[f].bytes) - 1) :
             /\ file' = (IF fl[f].pc = "orphan" THEN file
                         ELSE [file EXCEPT ![fl[f].o][fl[f].k] =
                                  Overlaid(@, SubSeq(fl[f].bytes, 1, n))])
             /\ fl' = [fl EXCEPT ![f] = [fl[f] EXCEPT !.pc = "open", !.k = 0, !.bytes = <<>>,
                                !.ok = FALSE, !.todo = fl[f].todo \ {fl[f].k}]]
             /\ synced' = [synced EXCEPT ![fl[f].o] = WithoutPart(@, fl[f].k)]
    BY <1>5, <1>7
  <1> QED  BY <1>6, <1>7 DEF PersistWrite

(* Writing the bytes keeps it, also when the write fails, is short, or     *)
(* goes to a file already removed.                                         *)
LEMMA PersistWriteMeta ==
    ASSUME MetaInv, NEW f \in Flushers, PersistWrite(f)
    PROVE  MetaInv'
  <1>1. fl[f].pc \in {"write", "orphan"} /\ UNCHANGED <<bitmap, marked, db>>
    BY DEF PersistWrite
  <1>2. PICK n \in 0..Len(fl[f].bytes), ok \in BOOLEAN :
             /\ IF fl[f].pc = "orphan" THEN UNCHANGED file
                ELSE file' = [file EXCEPT ![fl[f].o][fl[f].k] =
                                    Overlaid(@, SubSeq(fl[f].bytes, 1, n))]
             /\ fl' = [fl EXCEPT ![f] = [fl[f] EXCEPT !.pc = "open", !.k = 0, !.bytes = <<>>,
                                                      !.ok = ok, !.todo = fl[f].todo \ {fl[f].k}]]
             /\ \/ n = Len(fl[f].bytes) /\ ok = fl[f].ok /\ UNCHANGED synced
                \/ /\ ~ok
                   /\ synced' = [synced EXCEPT ![fl[f].o] = WithoutPart(@, fl[f].k)]
    BY PersistWriteCases
  <1>3. fl[f] \in Flush /\ fl[f].o \in Objects /\ fl[f].todo \in SUBSET Parts
    BY <1>1, InFlush DEF Idle
  <1>4. /\ FilesInv'
        /\ \A q \in Objects, j \in Parts : file[q][j] # NoFile => file'[q][j] # NoFile
    <2>1. CASE fl[f].pc = "orphan"
      BY <1>1, <1>2, <2>1 DEF MetaInv, FilesInv
    <2>2. CASE fl[f].pc = "write"
      BY <1>1, <1>2, <2>2, FileWritten
    <2> QED  BY <1>1, <2>1, <2>2
  <1> DEFINE todo == fl[f].todo \ {fl[f].k}
             empty == <<>>
             r == [fl[f] EXCEPT !.pc = "open", !.k = 0, !.bytes = empty, !.ok = ok, !.todo = todo]
  <1>5. todo \in SUBSET Parts /\ empty \in Seq(Byte) /\ fl' = [fl EXCEPT ![f] = r]
    BY <1>2, <1>3
  <1> HIDE DEF todo, empty
  <1>6. r \in Flush /\ r.pc = "open"
    BY <1>3, <1>5 DEF Flush
  <1> HIDE DEF r
  <1>7. FlushInv(r, marked, file')
    BY <1>6 DEF FlushInv
  <1>8. FlushesInv'
    BY <1>1, <1>4, <1>5, <1>7, FlushGoesOn
  <1>9. HistoryInv'
    <2>1. WithoutPart(synced[fl[f].o], fl[f].k) \in SUBSET (Parts \X Blocks)
      BY <1>3 DEF MetaInv, HistoryInv, WithoutPart
    <2> QED  BY <1>1, <1>2, <1>3, <2>1 DEF MetaInv, HistoryInv
  <1>10. BitmapsInv' /\ TableInv'
    BY <1>1, TableKept DEF MetaInv, BitmapsInv
  <1> QED  BY <1>4, <1>8, <1>9, <1>10 DEF MetaInv

(* The end of flushBitmaps keeps it.                                       *)
LEMMA FlushEndMeta ==
    ASSUME MetaInv, NEW f \in Flushers, FlushEnd(f)
    PROVE  MetaInv'
  <1>1. /\ fl[f].pc = "open" /\ fl' = [fl EXCEPT ![f] = Idle]
        /\ synced' = IF fl[f].ok THEN [synced EXCEPT ![fl[f].o] = @ \cup fl[f].due] ELSE synced
        /\ UNCHANGED <<bitmap, file, marked, db>>
    BY DEF FlushEnd
  <1>2. fl[f].o \in Objects /\ fl[f].due \in SUBSET (Parts \X Blocks)
    BY <1>1, InFlush DEF Idle
  <1>3. FlushInv(Idle, marked, file')
    BY DEF FlushInv
  <1>4. FlushesInv'
    BY <1>1, <1>3, FlushGoesOn
  <1>5. HistoryInv'
    BY <1>1, <1>2 DEF MetaInv, HistoryInv
  <1>6. BitmapsInv' /\ FilesInv' /\ TableInv'
    BY <1>1, TableKept DEF MetaInv, BitmapsInv, FilesInv
  <1> QED  BY <1>4, <1>5, <1>6 DEF MetaInv

(* The flushes of a deleted object write to files without a name.          *)
LEMMA DeleteObjectMeta ==
    ASSUME MetaInv, NEW o \in Objects, DeleteObject(o)
    PROVE  MetaInv'
  <1>1. /\ file' = [file EXCEPT ![o] = [k \in Parts |-> NoFile]]
        /\ synced' = [synced EXCEPT ![o] = {}]
        /\ fl' = [f \in Flushers |-> IF fl[f] # Idle /\ fl[f].o = o
                    THEN [fl[f] EXCEPT !.due = {}, !.pc = IF @ = "write" THEN "orphan" ELSE @]
                    ELSE fl[f]]
        /\ UNCHANGED <<bitmap, marked, db>>
    BY DEF DeleteObject
  <1>2. \A q \in Objects, k \in Parts : file'[q][k] = IF q = o THEN NoFile ELSE file[q][k]
    BY <1>1 DEF MetaInv, FilesInv
  <1>3. FilesInv'
    <2>1. file' = [q \in Objects |-> [k \in Parts |-> file'[q][k]]]
      BY <1>1 DEF MetaInv, FilesInv
    <2>2. \A q \in Objects, k \in Parts : FileInv(file'[q][k], InPart(marked[q], k))
      BY <1>2 DEF MetaInv, FilesInv, FileInv
    <2> QED  BY <1>1, <2>1, <2>2 DEF FilesInv
  <1>4. FlushesInv'
    <2>1. ASSUME NEW f \in Flushers PROVE FlushInv(fl'[f], marked, file')
      <3>1. CASE fl[f] # Idle /\ fl[f].o = o
        <4> DEFINE pc == IF fl[f].pc = "write" THEN "orphan" ELSE fl[f].pc
                   r == [fl[f] EXCEPT !.due = {}, !.pc = pc]
        <4>1. fl'[f] = r
          BY <1>1, <3>1
        <4>2. /\ fl[f] \in Flush /\ pc \in {"open", "orphan"}
              /\ fl[f].pc \in {"write", "orphan"} =>
                   fl[f].k \in Parts /\ BytesIn(fl[f].bytes, InPart(marked[fl[f].o], fl[f].k))
          BY <3>1, InFlush DEF Flush
        <4>3. pc = "orphan" => fl[f].pc \in {"write", "orphan"}
          OBVIOUS
        <4> HIDE DEF pc
        <4>4. /\ r \in Flush /\ r.pc = pc /\ r.o = fl[f].o /\ r.k = fl[f].k
              /\ r.bytes = fl[f].bytes
          BY <4>2 DEF Flush
        <4> HIDE DEF r
        <4> QED  BY <4>1, <4>2, <4>3, <4>4 DEF FlushInv
      <3>2. CASE fl[f] = Idle
        BY <1>1, <3>2 DEF FlushInv
      <3>3. CASE fl[f] # Idle /\ fl[f].o # o
        <4>1. fl'[f] = fl[f] /\ FlushInv(fl[f], marked, file) /\ fl[f].o \in Objects
          BY <1>1, <3>3, InFlush DEF MetaInv, FlushesInv
        <4> QED  BY <1>2, <3>3, <4>1 DEF FlushInv
      <3> QED  BY <3>1, <3>2, <3>3
    <2>2. fl' = [f \in Flushers |-> fl'[f]]
      BY <1>1
    <2> QED  BY <1>1, <2>1, <2>2 DEF FlushesInv
  <1>5. HistoryInv'
    BY <1>1 DEF MetaInv, HistoryInv
  <1>6. BitmapsInv' /\ TableInv'
    BY <1>1, TableKept DEF MetaInv, BitmapsInv
  <1> QED  BY <1>3, <1>4, <1>5, <1>6 DEF MetaInv

-----------------------------------------------------------------------------
(* The table.                                                              *)

(* A statement that leaves rows in the table keeps it.                     *)
LEMMA StatementMeta ==
    ASSUME MetaInv, NEW op, NEW t, Statement(op, t), Ready => t \in [Paths -> Row]
    PROVE  MetaInv'
  <1>1. UNCHANGED <<maps, handle>>
    BY DEF Statement
  <1>2. TableInv'
    BY <1>1 DEF Statement, MetaInv, TableInv
  <1> QED  BY <1>1, <1>2, MapsKept DEF MetaInv

(* One row is replaced.                                                    *)
LEMMA RowReplaced ==
    ASSUME MetaInv, Ready, NEW p \in Paths, NEW r \in Row
    PROVE  [table EXCEPT ![p] = r] \in [Paths -> Row]
  <1>1. table \in [Paths -> Row]
    BY DEF Ready, MetaInv, TableInv
  <1> QED  BY <1>1

(* An update of a row is a row.                                            *)
LEMMA UpdatedRow ==
    ASSUME NEW r \in Row
    PROVE  /\ \A t \in {0, 1} : Updated(r, "accessed", t) \in Row
           /\ \A d \in BOOLEAN : Updated(r, "dirty", d) \in Row
  <1>1. CASE r = NoRow
    BY <1>1 DEF Updated
  <1>2. CASE r # NoRow
    <2>1. r \in CacheMetadata
      BY <1>2 DEF Row
    <2>2. ASSUME NEW t \in {0, 1} PROVE [r EXCEPT !["accessed"] = t] \in CacheMetadata
      BY <2>1 DEF CacheMetadata
    <2>3. ASSUME NEW d \in BOOLEAN PROVE [r EXCEPT !["dirty"] = d] \in CacheMetadata
      BY <2>1 DEF CacheMetadata
    <2> QED  BY <1>2, <2>2, <2>3 DEF Updated, Row
  <1> QED  BY <1>1, <1>2

(* put keeps it.                                                           *)
LEMMA putMeta ==
    ASSUME MetaInv, NEW p \in Paths, NEW meta \in CacheMetadata, put(p, meta)
    PROVE  MetaInv'
  <1>1. meta \in Row
    BY DEF Row
  <1> QED  BY <1>1, RowReplaced, StatementMeta DEF put

(* updateAccessTime and markDirty keep it, with or without a row to change.*)
LEMMA updateMeta ==
    ASSUME MetaInv, NEW p \in Paths, NEW t \in {0, 1}, NEW d \in BOOLEAN,
           updateAccessTime(p, t) \/ markDirty(p, d)
    PROVE  MetaInv'
  <1> DEFINE r == Updated(table[p], "accessed", t)
             s == Updated(table[p], "dirty", d)
  <1>1. \/ Statement("access", [table EXCEPT ![p] = r])
        \/ Statement("dirty", [table EXCEPT ![p] = s])
    BY DEF updateAccessTime, markDirty
  <1>2. Ready => r \in Row /\ s \in Row
    BY UpdatedRow DEF Ready, MetaInv, TableInv
  <1> HIDE DEF r, s
  <1> QED  BY <1>1, <1>2, RowReplaced, StatementMeta

(* remove keeps it.                                                        *)
LEMMA removeMeta ==
    ASSUME MetaInv, NEW p \in Paths, remove(p)
    PROVE  MetaInv'
  <1>1. NoRow \in Row
    BY DEF Row
  <1> QED  BY <1>1, RowReplaced, StatementMeta DEF remove

(* A table that is kept has its rows, a new one has none.                  *)
LEMMA InitDbMeta == ASSUME MetaInv, InitDb PROVE MetaInv'
  <1>1. UNCHANGED maps /\ handle' \in BOOLEAN /\ (UNCHANGED table \/ table' = init(table))
    BY DEF InitDb, MetaInv, TableInv
  <1>2. Empty \in [Paths -> Row]
    BY DEF Empty, Row
  <1>3. TableInv'
    BY <1>1, <1>2 DEF init, MetaInv, TableInv
  <1> QED  BY <1>1, <1>3, MapsKept DEF MetaInv

(* cleanup keeps it, whether or not the database is open.                  *)
LEMMA cleanupMeta == ASSUME MetaInv, cleanup PROVE MetaInv'
  <1>1. UNCHANGED maps
    BY DEF cleanup
  <1>2. CASE UNCHANGED db
    BY <1>1, <1>2, TableKept, MapsKept DEF MetaInv
  <1>3. CASE handle' = FALSE /\ (table' = NoTable \/ UNCHANGED table)
    <2>1. TableInv'
      BY <1>3 DEF MetaInv, TableInv
    <2> QED  BY <1>1, <2>1, MapsKept DEF MetaInv
  <1> QED  BY <1>2, <1>3 DEF cleanup

(* Every call on the table keeps it.                                       *)
LEMMA TableStepMeta == ASSUME MetaInv, TableStep PROVE MetaInv'
  <1>1. ASSUME UNCHANGED <<maps, db>> PROVE MetaInv'
    BY <1>1, TableKept, MapsKept DEF MetaInv
  <1>2. CASE allEntries
    BY <1>1, <1>2 DEF allEntries
  <1>3. ASSUME NEW p \in Paths, get(p) PROVE MetaInv'
    BY <1>1, <1>3 DEF get
  <1> QED  BY <1>2, <1>3, InitDbMeta, cleanupMeta, putMeta, updateMeta, removeMeta DEF TableStep

-----------------------------------------------------------------------------
(* A restart forgets the vectors and the flushes and keeps the disk.       *)
LEMMA RestartMeta == ASSUME MetaInv, Restart PROVE MetaInv'
  <1>1. /\ bitmap' = [o \in Objects |-> [k \in Parts |-> NoBits]]
        /\ fl' = [f \in Flushers |-> Idle]
        /\ synced' = [o \in Objects |->
                        {d \in synced[o] : ~\E f \in Flushers :
                            fl[f].pc = "write" /\ fl[f].o = o /\ fl[f].k = d[1]}]
        /\ handle' = FALSE /\ UNCHANGED <<file, table, marked>>
    BY DEF Restart
  <1>2. NoBits \in BitVec /\ \A M : BitsInv(NoBits, M)
    BY BitsAssumption DEF NoBits, BitVec, BitsInv
  <1>3. BitmapsInv'
    BY <1>1, <1>2 DEF BitmapsInv
  <1>4. FilesInv'
    BY <1>1 DEF MetaInv, FilesInv
  <1>5. FlushesInv'
    BY <1>1 DEF FlushesInv, FlushInv
  <1>6. HistoryInv'
    BY <1>1 DEF MetaInv, HistoryInv
  <1>7. TableInv'
    BY <1>1 DEF MetaInv, TableInv
  <1> QED  BY <1>3, <1>4, <1>5, <1>6, <1>7 DEF MetaInv

(* The invariant is inductive.                                             *)
LEMMA NextMeta == MetaInv /\ [Next]_vars => MetaInv'
  <1> SUFFICES ASSUME MetaInv, [Next]_vars PROVE MetaInv'
    OBVIOUS
  <1>1. CASE BitmapStep
    BY <1>1, MarkMeta, FlushBeginMeta, PersistOpenMeta, PersistWriteMeta, FlushEndMeta,
       DeleteObjectMeta DEF BitmapStep
  <1>2. CASE TableStep
    BY <1>2, TableStepMeta
  <1>3. CASE Restart
    BY <1>3, RestartMeta
  <1>4. CASE UNCHANGED vars
    BY <1>4, TableKept, MapsKept DEF vars, MetaInv
  <1> QED  BY <1>1, <1>2, <1>3, <1>4 DEF Next, Rest

(* The invariant is strong enough.                                         *)
LEMMA MetaTypes == MetaInv => TypeOK
  <1> SUFFICES ASSUME MetaInv PROVE TypeOK
    OBVIOUS
  <1>1. \A o \in Objects, k \in Parts : file[o][k] = NoFile \/ file[o][k] \in Seq(Byte)
    BY DEF MetaInv, FilesInv, FileInv
  <1>2. \A f \in Flushers : fl[f].pc \in {"idle", "open", "write", "orphan"}
    BY DEF MetaInv, FlushesInv, FlushInv, Flush, Idle
  <1> QED  BY <1>1, <1>2 DEF MetaInv, BitmapsInv, HistoryInv, TableInv, TypeOK, Row

(* A block that a file names, read by hand or by loadBitmap, was marked.   *)
LEMMA MetaNamesMarked == MetaInv => NoInventedDirt
  <1> SUFFICES ASSUME MetaInv, NEW o \in Objects, NEW k \in Parts,
                      NEW b \in Named(file[o][k]) \cup loadBitmap(file[o][k]).ones
               PROVE  <<k, b>> \in marked[o]
    BY DEF NoInventedDirt
  <1> DEFINE s == file[o][k]
             M == InPart(marked[o], k)
  <1>1. s = NoFile \/ (s \in Seq(Byte) /\ BytesIn(s, M))
    BY DEF MetaInv, FilesInv, FileInv
  <1>2. Named(s) \subseteq M
    BY <1>1, NamedIn
  <1>3. loadBitmap(s).ones \subseteq M
    <2>1. CASE s = NoFile
      BY <2>1 DEF loadBitmap, NoBits
    <2>2. CASE s # NoFile
      <3> DEFINE n == Bytes(Len(s))
      <3>1. Len(s) \in Nat
        BY <1>1, <2>2
      <3>2. n \in 0..Len(s)
        <4>1. n \in Nat /\ n <= Len(s)
          BY <3>1, BytesBounds
        <4> QED  BY <3>1, <4>1
      <3>3. loadBitmap(s).ones = Named(SubSeq(s, 1, n))
        BY <2>2 DEF loadBitmap
      <3> HIDE DEF n, s, M
      <3>4. BytesIn(SubSeq(s, 1, n), M)
        BY <1>1, <2>2, <3>2, SubSeqIn
      <3> QED  BY <3>3, <3>4, NamedIn
    <2> QED  BY <2>1, <2>2
  <1> QED  BY <1>2, <1>3 DEF InPart

(* Type correctness of the metadata store.                                 *)
THEOREM MetadataTypeCorrect == Spec => []TypeOK
  BY InitMeta, NextMeta, MetaTypes, PTL DEF Spec

(* Whatever threads flush, fail, delete and restart in whatever order, the *)
(* files on disk name only blocks that were marked, and loadBitmap would   *)
(* find only such blocks in them (metadata_store.cc:193-232).              *)
THEOREM FilesNameMarkedBlocks == Spec => []NoInventedDirt
  BY InitMeta, NextMeta, MetaNamesMarked, PTL DEF Spec

-----------------------------------------------------------------------------
(* One flushing thread: what a flush that succeeded put on disk stays.     *)

(* While no file is open every synced block is in its file.               *)
LEMMA OnDiskWhenOpen ==
    ASSUME SingleFlusher, FlushedStaysOnDisk, NEW f \in Flushers, fl[f].pc # "write",
           NEW o \in Objects, NEW d \in synced[o]
    PROVE  d[2] \in Named(file[o][d[1]])
  BY DEF SingleFlusher, FlushedStaysOnDisk

(* Nothing is flushed at the start.                                        *)
LEMMA InitDurable == Init => DurableInv
  BY DEF Init, DurableInv, FlushedStaysOnDisk, DurableFlush

(* Marking only adds to the vectors.                                       *)
LEMMA MarkDurable ==
    ASSUME MetaInv, DurableInv, NEW o \in Objects, NEW k \in Parts, NEW b \in Blocks,
           Mark(o, k, b)
    PROVE  DurableInv'
  <1>1. /\ bitmap' = [bitmap EXCEPT ![o][k] = markDirtyBlock(@, b)]
        /\ UNCHANGED <<file, fl, synced>>
    BY DEF Mark
  <1>2. \A q \in Objects, j \in Parts : bitmap[q][j].ones \subseteq bitmap'[q][j].ones
    BY <1>1 DEF MetaInv, BitmapsInv, markDirtyBlock
  <1>3. ASSUME NEW f \in Flushers PROVE DurableFlush(fl[f], bitmap', file, synced)
    <2>1. DurableFlush(fl[f], bitmap, file, synced)
      BY DEF DurableInv
    <2>2. fl[f] # Idle => fl[f].o \in Objects /\ fl[f].due \in SUBSET (Parts \X Blocks)
      BY InFlush
    <2>3. fl[f] # Idle => \A d \in fl[f].due : d[1] \in Parts
      BY <2>2
    <2> QED  BY <1>2, <2>1, <2>2, <2>3 DEF DurableFlush
  <1> QED  BY <1>1, <1>3 DEF DurableInv, FlushedStaysOnDisk

(* A flush owes the blocks of the vectors, all of them in parts to do.     *)
LEMMA FlushBeginDurable ==
    ASSUME SingleFlusher, MetaInv, DurableInv, NEW f \in Flushers, NEW o \in Objects,
           FlushBegin(f, o)
    PROVE  DurableInv'
  <1> DEFINE todo == {k \in Parts : bitmap[o][k].size > 0}
             due == Ones(o)
             r == [pc |-> "open", o |-> o, k |-> 0, bytes |-> <<>>, ok |-> TRUE,
                   todo |-> todo, due |-> due]
  <1>1. /\ fl[f] = Idle /\ fl' = [fl EXCEPT ![f] = r]
        /\ UNCHANGED <<bitmap, file, marked, synced>>
    BY DEF FlushBegin
  <1>2. \A d \in due : d[1] \in Parts /\ d[2] \in bitmap[o][d[1]].ones
    BY DEF Ones
  <1>3. \A d \in due : d[1] \in todo
    <2> SUFFICES ASSUME NEW d \in due PROVE d[1] \in todo
      OBVIOUS
    <2>1. /\ d[1] \in Parts /\ d[2] \in bitmap[o][d[1]].ones
          /\ BitsInv(bitmap[o][d[1]], InPart(marked[o], d[1]))
      BY <1>2 DEF MetaInv, BitmapsInv
    <2>2. d[2] \in Nat /\ d[2] < bitmap[o][d[1]].size /\ bitmap[o][d[1]].size \in Nat
      BY <2>1, BitsAssumption DEF BitsInv, BitVec, Blocks
    <2> QED  BY <2>1, <2>2
  <1> HIDE DEF todo, due
  <1>4. r.o = o /\ r.due = due /\ r.todo = todo /\ r.pc = "open"
    OBVIOUS
  <1> HIDE DEF r
  <1>5. DurableFlush(r, bitmap, file, synced)
    BY <1>2, <1>3, <1>4 DEF DurableFlush
  <1>6. \A g \in Flushers : fl'[g] = r
    BY <1>1 DEF SingleFlusher, MetaInv, FlushesInv
  <1>7. \A q \in Objects : \A d \in synced[q] : d[2] \in Named(file[q][d[1]])
    BY <1>1, OnDiskWhenOpen DEF DurableInv, Idle
  <1> QED  BY <1>1, <1>5, <1>6, <1>7 DEF DurableInv, FlushedStaysOnDisk

(* Opening empties the file of one part, whose blocks are all in the bytes *)
(* to be written: the vector has every block of it that was synced.        *)
LEMMA PersistOpenDurable ==
    ASSUME SingleFlusher, MetaInv, DurableInv, NEW f \in Flushers, NEW k \in Parts,
           PersistOpen(f, k)
    PROVE  DurableInv'
  <1> DEFINE o == fl[f].o
             todo == fl[f].todo \ {k}
             bytes == encode(bitmap[o][k])
             r == [fl[f] EXCEPT !.pc = "write", !.k = k, !.bytes = bytes]
             s == [fl[f] EXCEPT !.ok = FALSE, !.todo = todo]
  <1>1. fl[f].pc = "open" /\ k \in fl[f].todo /\ UNCHANGED <<bitmap, marked>>
    BY DEF PersistOpen
  <1>2. /\ fl[f] \in Flush /\ o \in Objects /\ fl[f] # Idle
        /\ fl[f].due \in SUBSET (Parts \X Blocks)
    BY <1>1, InFlush DEF Idle
  <1>3. \A q \in Objects : \A d \in synced[q] : d[2] \in Named(file[q][d[1]])
    BY <1>1, OnDiskWhenOpen DEF DurableInv
  <1>4. /\ \A d \in fl[f].due : d[2] \in bitmap[o][d[1]].ones
        /\ fl[f].ok => \A d \in fl[f].due : d[1] \in fl[f].todo \/ d[2] \in Named(file[o][d[1]])
    BY <1>2 DEF DurableInv, DurableFlush
  <1>5. CASE /\ file' = [file EXCEPT ![o][k] = <<>>] /\ fl' = [fl EXCEPT ![f] = r]
             /\ synced' = [synced EXCEPT ![o] = WithoutPart(@, k) \cup (@ \cap Ones(o))]
    <2>1. \A b \in bitmap[o][k].ones : b \in Named(bytes)
      BY <1>2, EncodeComplete DEF MetaInv, BitmapsInv
    <2>2. \A q \in Objects, j \in Parts : ~(q = o /\ j = k) => file'[q][j] = file[q][j]
      BY <1>2, <1>5 DEF MetaInv, FilesInv
    <2>3. /\ \A q \in Objects : synced'[q] \subseteq synced[q]
          /\ \A d \in synced'[o] : d[1] = k => d[2] \in bitmap[o][k].ones
      BY <1>2, <1>5 DEF MetaInv, HistoryInv, WithoutPart, Ones
    <2> HIDE DEF bytes
    <2>4. /\ r.o = o /\ r.due = fl[f].due /\ r.todo = fl[f].todo /\ r.pc = "write"
          /\ r.k = k /\ r.bytes = bytes /\ r.ok = fl[f].ok
      BY <1>2 DEF Flush
    <2> HIDE DEF r
    <2>5. \A d \in fl[f].due : d[1] \in Parts
      BY <1>2
    <2>6. DurableFlush(r, bitmap, file', synced')
      <3>1. \A d \in r.due : d[2] \in bitmap[r.o][d[1]].ones
        BY <1>4, <2>4
      <3>2. r.ok => \A d \in r.due : d[1] \in r.todo \/ d[2] \in Named(file'[r.o][d[1]])
        BY <1>1, <1>2, <1>4, <2>2, <2>4, <2>5
      <3>3. \A d \in synced'[r.o] : d[1] = r.k => d[2] \in Named(r.bytes)
        BY <2>1, <2>3, <2>4
      <3>4. \A d \in r.due : d[1] = r.k => d[2] \in Named(r.bytes)
        BY <1>4, <2>1, <2>4
      <3> QED  BY <2>4, <3>1, <3>2, <3>3, <3>4 DEF DurableFlush
    <2>7. \A g \in Flushers : fl'[g] = r
      BY <1>5 DEF SingleFlusher, MetaInv, FlushesInv
    <2>8. ASSUME NEW q \in Objects, NEW d \in synced'[q], ~(q = o /\ d[1] = k)
          PROVE  d[2] \in Named(file'[q][d[1]])
      <3>1. d \in synced[q] /\ d[1] \in Parts
        BY <2>3 DEF MetaInv, HistoryInv
      <3> QED  BY <1>3, <2>2, <2>8, <3>1
    <2>9. FlushedStaysOnDisk'
      BY <2>4, <2>7, <2>8 DEF FlushedStaysOnDisk
    <2> QED  BY <1>1, <2>6, <2>7, <2>9 DEF DurableInv
  <1>6. CASE fl' = [fl EXCEPT ![f] = s] /\ UNCHANGED <<file, synced>>
    <2> HIDE DEF todo
    <2>1. s.o = o /\ s.due = fl[f].due /\ s.pc = "open" /\ s.ok = FALSE
      BY <1>1, <1>2 DEF Flush
    <2> HIDE DEF s
    <2>2. DurableFlush(s, bitmap, file, synced)
      BY <1>4, <2>1 DEF DurableFlush
    <2>3. \A g \in Flushers : fl'[g] = s
      BY <1>6 DEF SingleFlusher, MetaInv, FlushesInv
    <2> QED  BY <1>1, <1>3, <1>6, <2>2, <2>3 DEF DurableInv, FlushedStaysOnDisk
  <1> QED  BY <1>5, <1>6 DEF PersistOpen

(* A write that succeeds puts the bytes into the file; one that fails      *)
(* costs what the file's part had.                                         *)
LEMMA PersistWriteDurable ==
    ASSUME SingleFlusher, MetaInv, DurableInv, NEW f \in Flushers, PersistWrite(f)
    PROVE  DurableInv'
  <1>1. fl[f].pc \in {"write", "orphan"} /\ UNCHANGED <<bitmap, marked>>
    BY DEF PersistWrite
  <1>2. PICK n \in 0..Len(fl[f].bytes), ok \in BOOLEAN :
             /\ IF fl[f].pc = "orphan" THEN UNCHANGED file
                ELSE file' = [file EXCEPT ![fl[f].o][fl[f].k] =
                                    Overlaid(@, SubSeq(fl[f].bytes, 1, n))]
             /\ fl' = [fl EXCEPT ![f] = [fl[f] EXCEPT !.pc = "open", !.k = 0, !.bytes = <<>>,
                                                      !.ok = ok, !.todo = fl[f].todo \ {fl[f].k}]]
             /\ \/ n = Len(fl[f].bytes) /\ ok = fl[f].ok /\ UNCHANGED synced
                \/ /\ ~ok
                   /\ synced' = [synced EXCEPT ![fl[f].o] = WithoutPart(@, fl[f].k)]
    BY PersistWriteCases
  <1>3. /\ fl[f] \in Flush /\ fl[f].o \in Objects /\ fl[f].k \in Parts /\ fl[f] # Idle
        /\ fl[f].bytes \in Seq(Byte) /\ fl[f].due \in SUBSET (Parts \X Blocks)
        /\ fl[f].pc = "write" => file[fl[f].o][fl[f].k] # NoFile
    BY <1>1, InFlush DEF Idle
  <1>4. DurableFlush(fl[f], bitmap, file, synced)
    BY DEF DurableInv
  <1> DEFINE o == fl[f].o
             k == fl[f].k
             r == [fl[f] EXCEPT !.pc = "open", !.k = 0, !.bytes = <<>>, !.ok = ok,
                                !.todo = fl[f].todo \ {k}]
  <1>5. /\ r.o = o /\ r.due = fl[f].due /\ r.pc = "open" /\ r.ok = ok
        /\ r.todo = fl[f].todo \ {k} /\ fl' = [fl EXCEPT ![f] = r]
    BY <1>2, <1>3 DEF Flush
  <1>6. \A g \in Flushers : fl'[g] = r
    BY <1>5 DEF SingleFlusher, MetaInv, FlushesInv
  <1> HIDE DEF r
  <1>7. \A q \in Objects, j \in Parts : ~(q = o /\ j = k) => file'[q][j] = file[q][j]
    <2>1. CASE fl[f].pc = "orphan"
      BY <1>2, <2>1
    <2>2. CASE fl[f].pc = "write"
      BY <1>1, <1>2, <2>2, FileWritten
    <2> QED  BY <1>1, <2>1, <2>2
  <1>8. ASSUME fl[f].pc = "write", n = Len(fl[f].bytes)
        PROVE  Named(fl[f].bytes) \subseteq Named(file'[o][k])
    <2>1. file'[o][k] = Overlaid(file[o][k], fl[f].bytes)
      <3>1. file'[o][k] = Overlaid(file[o][k], SubSeq(fl[f].bytes, 1, n))
        BY <1>1, <1>2, <1>3, <1>8, FileWritten
      <3> QED  BY <1>3, <1>8, <3>1, AllOfBytes
    <2>2. file[o][k] \in Seq(Byte)
      BY <1>3, <1>8 DEF MetaInv, FilesInv, FileInv
    <2> QED  BY <1>3, <2>1, <2>2, OverlaidNames
  <1>9. ASSUME fl[f].pc = "orphan" PROVE UNCHANGED file
    BY <1>2, <1>9
  <1>10. ASSUME NEW q \in Objects, NEW d \in synced[q], ~(q = o /\ d[1] = k)
         PROVE  d[2] \in Named(file'[q][d[1]])
    <2>1. d[1] \in Parts
      BY DEF MetaInv, HistoryInv
    <2>2. d[2] \in Named(file[q][d[1]])
      BY <1>10 DEF DurableInv, FlushedStaysOnDisk, SingleFlusher
    <2> QED  BY <1>7, <1>10, <2>1, <2>2
  <1>11. CASE n = Len(fl[f].bytes) /\ ok = fl[f].ok /\ UNCHANGED synced
    <2>1. ASSUME NEW d \in synced[o], d[1] = k PROVE d[2] \in Named(file'[o][k])
      <3>1. CASE fl[f].pc = "write"
        BY <1>3, <1>4, <1>8, <1>11, <2>1, <3>1 DEF DurableFlush
      <3>2. CASE fl[f].pc = "orphan"
        BY <1>3, <1>9, <2>1, <3>2, OnDiskWhenOpen DEF DurableInv
      <3> QED  BY <1>1, <3>1, <3>2
    <2>2. FlushedStaysOnDisk'
      BY <1>5, <1>6, <1>10, <1>11, <2>1 DEF FlushedStaysOnDisk
    <2>3. ASSUME r.ok, NEW d \in r.due PROVE d[1] \in r.todo \/ d[2] \in Named(file'[o][d[1]])
      <3>1. d \in fl[f].due /\ d[1] \in Parts
        BY <1>3, <1>5, <2>3
      <3>2. d[1] \in fl[f].todo \/ d[2] \in Named(file[o][d[1]])
        BY <1>3, <1>4, <1>5, <1>11, <2>3, <3>1 DEF DurableFlush
      <3>3. CASE d[1] # k
        BY <1>3, <1>5, <1>7, <3>1, <3>2, <3>3
      <3>4. CASE d[1] = k /\ fl[f].pc = "write"
        BY <1>3, <1>4, <1>8, <1>11, <3>1, <3>4 DEF DurableFlush
      <3>5. CASE d[1] = k /\ fl[f].pc = "orphan"
        <4>1. fl[f].due = {}
          BY <1>3, <1>4, <3>5 DEF DurableFlush
        <4> QED  BY <3>1, <4>1
      <3> QED  BY <1>1, <3>3, <3>4, <3>5
    <2>4. DurableFlush(r, bitmap, file', synced')
      BY <1>3, <1>4, <1>5, <2>3 DEF DurableFlush
    <2> QED  BY <1>1, <1>6, <2>2, <2>4 DEF DurableInv
  <1>12. CASE ~ok /\ synced' = [synced EXCEPT ![o] = WithoutPart(@, k)]
    <2>1. \A q \in Objects : \A d \in synced'[q] : d \in synced[q] /\ ~(q = o /\ d[1] = k)
      BY <1>3, <1>12 DEF MetaInv, HistoryInv, WithoutPart
    <2>2. FlushedStaysOnDisk'
      BY <1>10, <2>1 DEF FlushedStaysOnDisk
    <2>3. DurableFlush(r, bitmap, file', synced')
      BY <1>3, <1>4, <1>5, <1>12 DEF DurableFlush
    <2> QED  BY <1>1, <1>6, <2>2, <2>3 DEF DurableInv
  <1> QED  BY <1>2, <1>11, <1>12

(* A flush that succeeded has written every part it owed.                  *)
LEMMA FlushEndDurable ==
    ASSUME SingleFlusher, MetaInv, DurableInv, NEW f \in Flushers, FlushEnd(f)
    PROVE  DurableInv'
  <1>1. /\ fl[f].pc = "open" /\ fl[f].todo = {} /\ fl' = [fl EXCEPT ![f] = Idle]
        /\ synced' = IF fl[f].ok THEN [synced EXCEPT ![fl[f].o] = @ \cup fl[f].due] ELSE synced
        /\ UNCHANGED <<bitmap, file>>
    BY DEF FlushEnd
  <1>2. fl[f].o \in Objects /\ fl[f] # Idle
    BY <1>1, InFlush DEF Idle
  <1>3. \A q \in Objects : \A d \in synced[q] : d[2] \in Named(file[q][d[1]])
    BY <1>1, OnDiskWhenOpen DEF DurableInv
  <1>4. fl[f].ok => \A d \in fl[f].due : d[2] \in Named(file[fl[f].o][d[1]])
    BY <1>1, <1>2 DEF DurableInv, DurableFlush
  <1>5. \A q \in Objects : \A d \in synced'[q] :
            d \in synced[q] \/ (fl[f].ok /\ q = fl[f].o /\ d \in fl[f].due)
    BY <1>1, <1>2 DEF MetaInv, HistoryInv
  <1>6. \A g \in Flushers : fl'[g] = Idle
    BY <1>1 DEF SingleFlusher, MetaInv, FlushesInv
  <1>7. FlushedStaysOnDisk'
    BY <1>1, <1>3, <1>4, <1>5 DEF FlushedStaysOnDisk
  <1> QED  BY <1>6, <1>7 DEF DurableInv, DurableFlush

(* The deleted object owes nothing, and has nothing on disk.               *)
LEMMA DeleteObjectDurable ==
    ASSUME MetaInv, DurableInv, NEW o \in Objects, DeleteObject(o)
    PROVE  DurableInv'
  <1>1. /\ file' = [file EXCEPT ![o] = [k \in Parts |-> NoFile]]
        /\ synced' = [synced EXCEPT ![o] = {}]
        /\ fl' = [f \in Flushers |-> IF fl[f] # Idle /\ fl[f].o = o
                    THEN [fl[f] EXCEPT !.due = {}, !.pc = IF @ = "write" THEN "orphan" ELSE @]
                    ELSE fl[f]]
        /\ UNCHANGED bitmap
    BY DEF DeleteObject
  <1>2. /\ \A q \in Objects : q # o => file'[q] = file[q] /\ synced'[q] = synced[q]
        /\ synced'[o] = {}
    BY <1>1 DEF MetaInv, FilesInv, HistoryInv
  <1>3. ASSUME NEW f \in Flushers PROVE DurableFlush(fl'[f], bitmap, file', synced')
    <2>1. CASE fl[f] # Idle /\ fl[f].o = o
      <3>1. fl'[f].due = {} /\ fl'[f].o = o
        BY <1>1, <2>1, InFlush DEF Flush
      <3> QED  BY <1>2, <3>1 DEF DurableFlush
    <2>2. CASE fl[f] = Idle
      BY <1>1, <2>2 DEF DurableFlush
    <2>3. CASE fl[f] # Idle /\ fl[f].o # o
      <3>1. fl'[f] = fl[f] /\ fl[f].o \in Objects /\ DurableFlush(fl[f], bitmap, file, synced)
        BY <1>1, <2>3, InFlush DEF DurableInv
      <3> QED  BY <1>2, <2>3, <3>1 DEF DurableFlush
    <2> QED  BY <2>1, <2>2, <2>3
  <1>4. FlushedStaysOnDisk'
    <2> SUFFICES ASSUME NEW q \in Objects, NEW d \in synced'[q]
                 PROVE  \/ d[2] \in Named(file'[q][d[1]])
                        \/ \E f \in Flushers : fl'[f].pc = "write" /\ fl'[f].o = q /\ fl'[f].k = d[1]
      BY DEF FlushedStaysOnDisk
    <2>1. q # o /\ d \in synced[q] /\ file'[q] = file[q]
      BY <1>2
    <2>2. CASE d[2] \in Named(file[q][d[1]])
      BY <2>1, <2>2
    <2>3. ASSUME NEW f \in Flushers, fl[f].pc = "write", fl[f].o = q, fl[f].k = d[1]
          PROVE  \E g \in Flushers : fl'[g].pc = "write" /\ fl'[g].o = q /\ fl'[g].k = d[1]
      BY <1>1, <2>1, <2>3
    <2> QED  BY <2>1, <2>2, <2>3 DEF DurableInv, FlushedStaysOnDisk
  <1> QED  BY <1>1, <1>3, <1>4 DEF DurableInv

(* A restart costs what the file had that was just open.                   *)
LEMMA RestartDurable ==
    ASSUME MetaInv, DurableInv, Restart
    PROVE  DurableInv'
  <1>1. /\ fl' = [f \in Flushers |-> Idle]
        /\ synced' = [o \in Objects |->
                        {d \in synced[o] : ~\E f \in Flushers :
                            fl[f].pc = "write" /\ fl[f].o = o /\ fl[f].k = d[1]}]
        /\ UNCHANGED file
    BY DEF Restart
  <1>2. FlushedStaysOnDisk'
    BY <1>1 DEF DurableInv, FlushedStaysOnDisk
  <1> QED  BY <1>1, <1>2 DEF DurableInv, DurableFlush

(* With one flusher every step keeps what was flushed on disk.             *)
LEMMA NextDurable ==
    ASSUME SingleFlusher
    PROVE  MetaInv /\ DurableInv /\ [Next]_vars => DurableInv'
  <1> SUFFICES ASSUME MetaInv, DurableInv, [Next]_vars PROVE DurableInv'
    OBVIOUS
  <1>1. ASSUME UNCHANGED maps PROVE DurableInv'
    BY <1>1 DEF maps, DurableInv, FlushedStaysOnDisk
  <1>2. CASE BitmapStep
    BY <1>2, MarkDurable, FlushBeginDurable, PersistOpenDurable, PersistWriteDurable,
       FlushEndDurable, DeleteObjectDurable DEF BitmapStep
  <1>3. CASE TableStep
    <2>1. UNCHANGED maps
      BY <1>3 DEF TableStep, InitDb, allEntries, cleanup, get, remove, put, updateAccessTime,
                  markDirty, Statement
    <2> QED  BY <1>1, <2>1
  <1>4. CASE Restart
    BY <1>4, RestartDurable
  <1>5. CASE UNCHANGED vars
    BY <1>1, <1>5 DEF vars
  <1> QED  BY <1>2, <1>3, <1>4, <1>5 DEF Next, Rest

(* If at most one thread flushes, a block that was marked when a flush     *)
(* which returned true began stays named on disk over every failure and    *)
(* restart, unless its file is just being rewritten                        *)
(* (metadata_store.cc:227-232).  With two threads this is false: run       *)
(* metadata_race.                                                          *)
THEOREM FlushesAreDurable == SingleFlusher /\ Spec => []FlushedStaysOnDisk
  <1> SUFFICES ASSUME SingleFlusher PROVE Spec => []FlushedStaysOnDisk
    OBVIOUS
  <1>1. DurableInv => FlushedStaysOnDisk
    BY DEF DurableInv
  <1> QED  BY <1>1, InitMeta, NextMeta, InitDurable, NextDurable, PTL DEF Spec
=============================================================================
