------------------------- MODULE CacheManagerProofs -------------------------
(***************************************************************************)
(* Proofs about CacheManager, for any number of paths, prefetch workers and*)
(* evictors, any block and part size, and any prefetch window.             *)
(***************************************************************************)
EXTENDS CacheProperties, FileOpsProofs

-----------------------------------------------------------------------------
(* The inductive invariant.  A buffer on its way to the disk holds cells of*)
(* the path and offset it will be written to: the block of the call in     *)
(* progress when it is about to be stored, and the buffer of a prefetch    *)
(* worker.                                                                 *)

Val == {Zero, Junk} \cup (Nat \X Paths \X Nat)

OwnUpTo(n, p, c) == {Zero} \cup {<<m, p, c>> : m \in 0..n}

\* The cells of s belong to p from offset base on.
OwnFrom(n, s, p, base) == \A i \in 1..Len(s) : s[i] \in OwnUpTo(n, p, base + i - 1)

CallPC == {"read", "download", "response", "fill", "copy", "write", "store", "mark", "track"}
JobPC == {"check", "download", "response", "fill", "touch"}

Frame == [pc : CallPC, op : {"read", "write"}, p : Paths, off : Nat, len : Nat,
          done : Nat, block : Seq(Val), out : Seq(Val)]
Job == [pc : JobPC, p : Paths, blk : Nat, left : Int, buf : Seq(Val),
        at : CopyAt]
Task == [p : Paths, blk : Nat]

ObjectInv(n, obj, p) ==
    /\ obj \in [Parts -> Seq(Val)]
    /\ \A k \in Parts : OwnFrom(n, obj[k], p, k * kMaxPartSize)

StoreInv ==
    /\ store = [p \in Paths |-> store[p]]
    /\ \A p \in Paths : ObjectInv(writes, store[p], p)

LocalInv ==
    /\ local \in [Paths -> Seq(Val)]
    /\ \A p \in Paths : OwnFrom(writes, local[p], p, 0)

BlockOf(f) == (f.off + f.done) \div kBlockSize

CallInv(n, f) ==
    \/ f = Idle
    \/ /\ f \in Frame
       /\ <<f.off, f.len>> \in Ranges
       /\ f.done <= f.len
       /\ f.pc \notin {"read", "write"} => f.done < f.len
       /\ f.pc \in {"fill", "store"} => OwnFrom(n, f.block, f.p, Offset(BlockOf(f)))

JobInv(n, j) ==
    \/ j = Idle
    \/ /\ j \in Job
       /\ j.pc = "fill" => OwnFrom(n, j.buf, j.p, Offset(j.blk))

WorkersInv ==
    /\ wk = [w \in Workers |-> wk[w]]
    /\ \A w \in Workers : JobInv(writes, wk[w])

DiskInv ==
    /\ writes \in Nat
    /\ tasks \in Seq(Task)
    /\ StoreInv /\ LocalInv /\ CallInv(writes, frame) /\ WorkersInv

-----------------------------------------------------------------------------
(* Arithmetic of blocks and parts.                                         *)

(* An offset is the start of its part and the offset in the part.          *)
LEMMA PartArithmetic ==
    ASSUME NEW off \in Nat
    PROVE  /\ PartOf(off) \in Nat /\ InPart(off) \in Nat
           /\ PartOf(off) * kMaxPartSize + InPart(off) = off
  BY LayoutAssumption DEF PartOf, InPart

(* A block starts at or before any offset in it.                           *)
LEMMA BlockArithmetic ==
    ASSUME NEW off \in Nat
    PROVE  /\ off \div kBlockSize \in Nat /\ off % kBlockSize \in Nat
           /\ off % kBlockSize < kBlockSize
           /\ Offset(off \div kBlockSize) \in Nat
           /\ Offset(off \div kBlockSize) + (off % kBlockSize) = off
  <1> DEFINE b == off \div kBlockSize
             i == off % kBlockSize
  <1>1. /\ b \in Nat /\ i \in Nat /\ i < kBlockSize
        /\ b * kBlockSize + i = off
    BY LayoutAssumption
  <1>2. Offset(b) \in Nat /\ Offset(b) + i = off
    <2> HIDE DEF b, i
    <2>1. b * kBlockSize \in Nat
      BY <1>1, LayoutAssumption
    <2> QED BY <1>1, <2>1 DEF Offset
  <1> QED BY <1>1, <1>2

(* The part of an offset among the cells is one of the parts.              *)
LEMMA PartInRange ==
    ASSUME NEW off \in Cells
    PROVE  PartOf(off) \in Parts
  <1>1. off \in Nat /\ off < (MaxPart + 1) * kMaxPartSize
    BY LayoutAssumption DEF Cells
  <1> DEFINE k == PartOf(off)
  <1> DEFINE i == InPart(off)
  <1>0. k \in Nat /\ i \in Nat /\ k * kMaxPartSize + i = off
    BY <1>1, PartArithmetic
  <1>2. k \in Nat /\ k * kMaxPartSize <= off
    <2> HIDE DEF k, i
    <2>1. k * kMaxPartSize \in Nat
      BY <1>0, LayoutAssumption
    <2> QED BY <1>0, <1>1, <2>1
  <1>3. k * kMaxPartSize < (MaxPart + 1) * kMaxPartSize
    <2> HIDE DEF k
    <2> QED BY <1>1, <1>2, LayoutAssumption
  <1>4. k < MaxPart + 1
    <2> HIDE DEF k
    <2>1. SUFFICES ASSUME k >= MaxPart + 1 PROVE FALSE
      BY <1>2, LayoutAssumption
    <2>2. k * kMaxPartSize >= (MaxPart + 1) * kMaxPartSize
      BY <2>1, <1>2, LayoutAssumption
    <2> QED BY <1>3, <2>2, <1>2, LayoutAssumption
  <1> QED BY <1>2, <1>4, LayoutAssumption DEF Parts

-----------------------------------------------------------------------------
(* What the file operations do to the ownership of cells.                  *)

(* What pread delivers belongs to where it was read.                       *)
LEMMA PreadOwn ==
    ASSUME NEW n \in Nat, NEW f \in Seq(Val), NEW p \in Paths, NEW base \in Nat,
           NEW len \in Nat, NEW off \in Nat,
           OwnFrom(n, f, p, base)
    PROVE  /\ pread(f, len, off) \in Seq(Val)
           /\ OwnFrom(n, pread(f, len, off), p, base + off)
  <1> DEFINE m == Clip(Len(f) - off, len)
             r == pread(f, len, off)
  <1>1. m \in Nat /\ \A i \in 1..m : off + i \in 1..Len(f)
    BY DEF Clip
  <1>2. r = [i \in 1..m |-> f[off + i]]
    BY DEF pread
  <1> HIDE DEF m, r
  <1>3. \A i \in 1..m : f[off + i] \in Val
    BY <1>1, SeqElement
  <1>4. r \in Seq(Val) /\ Len(r) = m
    BY <1>1, <1>2, <1>3
  <1>5. \A i \in 1..m : r[i] \in OwnUpTo(n, p, base + off + i - 1)
    <2> SUFFICES ASSUME NEW i \in 1..m PROVE r[i] \in OwnUpTo(n, p, base + off + i - 1)
      OBVIOUS
    <2>1. f[off + i] \in OwnUpTo(n, p, base + (off + i) - 1)
      BY <1>1 DEF OwnFrom
    <2>2. base + (off + i) - 1 = base + off + i - 1
      OBVIOUS
    <2> QED BY <1>2, <2>1, <2>2
  <1> QED BY <1>4, <1>5 DEF OwnFrom, r

(* A file stays its own under a pwrite of data that belongs there.         *)
LEMMA PwriteOwn ==
    ASSUME NEW n \in Nat, NEW f \in Seq(Val), NEW data \in Seq(Val),
           NEW p \in Paths, NEW base \in Nat, NEW off \in Nat,
           OwnFrom(n, f, p, base), OwnFrom(n, data, p, base + off)
    PROVE  /\ pwrite(f, data, off) \in Seq(Val)
           /\ OwnFrom(n, pwrite(f, data, off), p, base)
  <1>1. CASE data = <<>>
    BY <1>1 DEF pwrite
  <1>2. CASE data # <<>>
    <2> DEFINE m == IF Len(f) < off + Len(data) THEN off + Len(data) ELSE Len(f)
               at(i) == IF i > off /\ i <= off + Len(data) THEN data[i - off]
                        ELSE IF i <= Len(f) THEN f[i] ELSE Zero
               r == [i \in 1..m |-> at(i)]
    <2>1. pwrite(f, data, off) = r
      BY <1>2 DEF pwrite
    <2>2. m \in Nat
      OBVIOUS
    <2>3. ASSUME NEW i \in 1..m
          PROVE  at(i) \in Val /\ at(i) \in OwnUpTo(n, p, base + i - 1)
      <3>1. CASE i > off /\ i <= off + Len(data)
        <4>1. i - off \in 1..Len(data) /\ at(i) = data[i - off]
          BY <3>1
        <4>2. data[i - off] \in OwnUpTo(n, p, base + off + (i - off) - 1)
          BY <4>1 DEF OwnFrom
        <4>3. base + off + (i - off) - 1 = base + i - 1
          OBVIOUS
        <4> QED BY <4>1, <4>2, <4>3
      <3>2. CASE ~(i > off /\ i <= off + Len(data)) /\ i <= Len(f)
        <4>1. i \in 1..Len(f) /\ at(i) = f[i]
          BY <3>2
        <4> QED BY <4>1 DEF OwnFrom
      <3>3. CASE ~(i > off /\ i <= off + Len(data)) /\ ~(i <= Len(f))
        <4>1. at(i) = Zero
          BY <3>3
        <4> QED BY <4>1 DEF Val, OwnUpTo
      <3> QED BY <3>1, <3>2, <3>3
    <2> HIDE DEF m, at
    <2>4. r \in Seq(Val) /\ Len(r) = m /\ \A i \in 1..m : r[i] = at(i)
      BY <2>2, <2>3
    <2> QED BY <2>1, <2>3, <2>4 DEF OwnFrom
  <1> QED BY <1>1, <1>2

(* More writes leave what is owned owned.                                  *)
LEMMA OwnMonotone ==
    ASSUME NEW n \in Nat, NEW m \in Nat, n <= m, NEW s, NEW p, NEW base,
           OwnFrom(n, s, p, base)
    PROVE  OwnFrom(m, s, p, base)
  <1>1. 0..n \subseteq 0..m
    OBVIOUS
  <1>2. \A c : OwnUpTo(n, p, c) \subseteq OwnUpTo(m, p, c)
    BY <1>1 DEF OwnUpTo
  <1> QED BY <1>2 DEF OwnFrom

-----------------------------------------------------------------------------
(* What the operations of the block store and the backend do to it.        *)

(* A block starts at a natural offset.                                     *)
LEMMA OffsetNat ==
    ASSUME NEW blk \in Nat
    PROVE  Offset(blk) \in Nat
  BY LayoutAssumption DEF Offset

(* A block read from the store belongs to its offset.                      *)
LEMMA ReadBlockOwn ==
    ASSUME NEW n \in Nat, NEW p \in Paths, NEW obj, ObjectInv(n, obj, p),
           NEW off \in Nat, PartOf(off) \in Parts
    PROVE  /\ readBlock(obj, off) \in Seq(Val)
           /\ OwnFrom(n, readBlock(obj, off), p, off)
  <1> DEFINE k == PartOf(off)
             i == InPart(off)
             base == k * kMaxPartSize
  <1>1. k \in Nat /\ i \in Nat /\ base + i = off
    BY PartArithmetic
  <1>2. base \in Nat
    <2> HIDE DEF k
    <2> QED BY <1>1, LayoutAssumption
  <1>3. obj[k] \in Seq(Val) /\ OwnFrom(n, obj[k], p, base)
    BY DEF ObjectInv
  <1>4. readBlock(obj, off) = pread(obj[k], kBlockSize, i)
    BY DEF readBlock
  <1> HIDE DEF k, i, base
  <1>5. /\ pread(obj[k], kBlockSize, i) \in Seq(Val)
        /\ OwnFrom(n, pread(obj[k], kBlockSize, i), p, base + i)
    BY <1>1, <1>2, <1>3, PreadOwn, LayoutAssumption
  <1> QED BY <1>1, <1>4, <1>5

(* Writing data that belongs there keeps an object its own.                *)
LEMMA WriteOwn ==
    ASSUME NEW n \in Nat, NEW p \in Paths, NEW obj, ObjectInv(n, obj, p),
           NEW off \in Nat, NEW data \in Seq(Val), OwnFrom(n, data, p, off)
    PROVE  ObjectInv(n, write(obj, data, off), p)
  <1> DEFINE k == PartOf(off)
             i == InPart(off)
             base == k * kMaxPartSize
             new == pwrite(obj[k], data, i)
  <1>1. k \in Nat /\ i \in Nat /\ base + i = off
    BY PartArithmetic
  <1>2. base \in Nat
    <2> HIDE DEF k
    <2> QED BY <1>1, LayoutAssumption
  <1>3. obj \in [Parts -> Seq(Val)] /\ \A j \in Parts : OwnFrom(n, obj[j], p, j * kMaxPartSize)
    BY DEF ObjectInv
  <1>4. write(obj, data, off) = [obj EXCEPT ![k] = new]
    BY DEF write
  <1>5. CASE k \in Parts
    <2>1. obj[k] \in Seq(Val) /\ OwnFrom(n, obj[k], p, base)
      BY <1>3, <1>5
    <2>2. new \in Seq(Val) /\ OwnFrom(n, new, p, base)
      <3> HIDE DEF k, i, base
      <3> QED BY <1>1, <1>2, <2>1, PwriteOwn
    <2> HIDE DEF k, i, new
    <2>3. [obj EXCEPT ![k] = new] \in [Parts -> Seq(Val)]
      BY <1>3, <2>2
    <2>4. \A j \in Parts : OwnFrom(n, [obj EXCEPT ![k] = new][j], p, j * kMaxPartSize)
      BY <1>3, <2>2
    <2> QED BY <1>4, <2>3, <2>4 DEF ObjectInv
  <1>6. CASE k \notin Parts
    <2>1. [obj EXCEPT ![k] = new] = obj
      <3> HIDE DEF k, new
      <3> QED BY <1>3, <1>6
    <2> QED BY <1>4, <2>1
  <1> QED BY <1>5, <1>6

(* So does a write to the store, whether or not it fails.                  *)
LEMMA StoreWriteOwn ==
    ASSUME writes \in Nat, StoreInv, UNCHANGED writes,
           NEW p \in Paths, NEW blk \in Nat, NEW data \in Seq(Val),
           OwnFrom(writes, data, p, Offset(blk)), StoreWrite(p, data, blk)
    PROVE  StoreInv'
  <1>1. CASE store' = store
    BY <1>1 DEF StoreInv, ObjectInv, OwnFrom, OwnUpTo
  <1>2. CASE store' = [store EXCEPT ![p] = write(@, data, Offset(blk))]
    <2> DEFINE new == write(store[p], data, Offset(blk))
    <2>1. ObjectInv(writes, new, p)
      BY WriteOwn, OffsetNat DEF StoreInv
    <2>2. store' = [store EXCEPT ![p] = new]
      BY <1>2
    <2> HIDE DEF new
    <2>3. store' = [q \in Paths |-> store'[q]]
      BY <2>2 DEF StoreInv
    <2>4. \A q \in Paths : ObjectInv(writes, store'[q], q)
      BY <2>1, <2>2 DEF StoreInv
    <2> QED BY <2>3, <2>4 DEF StoreInv, ObjectInv, OwnFrom, OwnUpTo
  <1> QED BY <1>1, <1>2 DEF StoreWrite

(* A downloaded block belongs to its offset.                               *)
LEMMA DownloadOwn ==
    ASSUME NEW n \in Nat, NEW p \in Paths, NEW blk \in Nat
    PROVE  /\ download(p, blk) \in Seq(Val)
           /\ OwnFrom(n, download(p, blk), p, Offset(blk))
  <1> DEFINE off == Offset(blk)
             m == Clip(RemoteLen[p] - off, kBlockSize)
             r == [i \in 1..m |-> <<0, p, off + i - 1>>]
  <1>1. off \in Nat
    BY OffsetNat
  <1>2. m \in Nat
    BY <1>1, RemoteAssumption, LayoutAssumption DEF Clip
  <1>3. download(p, blk) = r
    BY DEF download
  <1> HIDE DEF off, m
  <1>4. \A i \in 1..m : <<0, p, off + i - 1>> \in Val
    BY <1>1, <1>2 DEF Val
  <1>5. r \in Seq(Val) /\ Len(r) = m /\ \A i \in 1..m : r[i] = <<0, p, off + i - 1>>
    BY <1>2, <1>4
  <1>6. \A i \in 1..m : r[i] \in OwnUpTo(n, p, off + i - 1)
    BY <1>5 DEF OwnUpTo
  <1> QED BY <1>3, <1>5, <1>6 DEF OwnFrom, off

-----------------------------------------------------------------------------
(* Where the call in progress is.                                          *)

(* The block of the call, and the chunk within it.                         *)
LEMMA HereFacts ==
    ASSUME frame \in Frame, <<frame.off, frame.len>> \in Ranges, frame.done < frame.len
    PROVE  /\ Here \in Nat /\ Blk \in Nat /\ Blk = BlockOf(frame) /\ Offset(Blk) \in Nat
           /\ In \in Nat /\ Offset(Blk) + In = Here
           /\ Want \in Nat /\ In + Want <= kBlockSize
           /\ frame.done + Want <= frame.len
           /\ PartOf(Offset(Blk)) \in Parts
  <1>1. frame.off \in Nat /\ frame.len \in Nat /\ frame.done \in Nat
    BY DEF Frame
  <1>2. Here \in Nat /\ Here < frame.off + frame.len
    BY <1>1 DEF Here
  <1>3. /\ Blk \in Nat /\ In \in Nat /\ In < kBlockSize
        /\ Offset(Blk) \in Nat /\ Offset(Blk) + In = Here
    BY <1>2, BlockArithmetic DEF Blk, In
  <1>4. /\ Want \in Nat /\ In + Want <= kBlockSize
        /\ frame.done + Want <= frame.len
    BY <1>1, <1>3, LayoutAssumption DEF Want, Clip
  <1>5. Blk = BlockOf(frame)
    BY DEF Blk, Here, BlockOf
  <1>6. Offset(Blk) \in Cells
    <2> DEFINE ahead == (PREFETCH_WINDOW + 1) * kBlockSize
    <2>1. ahead \in Nat
      BY WindowAssumption, LayoutAssumption
    <2>2. frame.off + frame.len + ahead \in Cells
      BY RangeAssumption
    <2> HIDE DEF ahead
    <2>3. \A c \in Cells, d \in Nat : d <= c => d \in Cells
      BY LayoutAssumption DEF Cells
    <2> QED BY <1>1, <1>2, <1>3, <2>1, <2>2, <2>3
  <1> QED BY <1>2, <1>3, <1>4, <1>5, <1>6, PartInRange

(* The caller's chunk belongs to where the call is.                        *)
LEMMA ChunkOwn ==
    ASSUME frame \in Frame, <<frame.off, frame.len>> \in Ranges, frame.done < frame.len,
           writes \in Nat
    PROVE  /\ Chunk \in Seq(Val) /\ Len(Chunk) = Want
           /\ \A i \in 1..Want : Chunk[i] = <<writes, frame.p, Here + i - 1>>
           /\ OwnFrom(writes, Chunk, frame.p, Here)
  <1>1. Here \in Nat /\ Want \in Nat /\ frame.p \in Paths
    BY HereFacts DEF Frame
  <1>2. Chunk = [i \in 1..Want |-> <<writes, frame.p, Here + i - 1>>]
    BY DEF Chunk, Data
  <1>3. \A i \in 1..Want : <<writes, frame.p, Here + i - 1>> \in Val
    BY <1>1 DEF Val
  <1>4. Chunk \in Seq(Val) /\ Len(Chunk) = Want
    <2> DEFINE m == Want
               at(i) == <<writes, frame.p, Here + i - 1>>
    <2>1. m \in Nat /\ Chunk = [i \in 1..m |-> at(i)] /\ \A i \in 1..m : at(i) \in Val
      BY <1>1, <1>2, <1>3
    <2> HIDE DEF m, at
    <2>2. Chunk \in Seq(Val) /\ Len(Chunk) = m
      BY <2>1
    <2> QED BY <2>2 DEF m
  <1>5. \A i \in 1..Want : Chunk[i] = <<writes, frame.p, Here + i - 1>>
    BY <1>2
  <1>6. \A i \in 1..Want : Chunk[i] \in OwnUpTo(writes, frame.p, Here + i - 1)
    BY <1>5 DEF OwnUpTo
  <1> QED BY <1>4, <1>5, <1>6 DEF OwnFrom

(* The merged block belongs to the start of the block.                     *)
LEMMA MergedOwn ==
    ASSUME frame \in Frame, <<frame.off, frame.len>> \in Ranges, frame.done < frame.len,
           writes \in Nat,
           NEW old \in Seq(Val), OwnFrom(writes, old, frame.p, Offset(Blk))
    PROVE  /\ Merged(old) \in Seq(Val)
           /\ OwnFrom(writes, Merged(old), frame.p, Offset(Blk))
  <1> DEFINE at(i) == IF i > In /\ i <= In + Want THEN Chunk[i - In]
                      ELSE IF i <= Len(old) THEN old[i] ELSE Zero
             r == [i \in 1..kBlockSize |-> at(i)]
             off == Offset(Blk)
  <1>1. /\ off \in Nat /\ In \in Nat /\ Want \in Nat /\ off + In = Here
        /\ In + Want <= kBlockSize
    BY HereFacts
  <1>2. Merged(old) = r
    BY DEF Merged
  <1>3. ASSUME NEW i \in 1..kBlockSize
        PROVE  at(i) \in Val /\ at(i) \in OwnUpTo(writes, frame.p, off + i - 1)
    <2> i \in Nat /\ i >= 1
      BY LayoutAssumption
    <2>1. CASE i > In /\ i <= In + Want
      <3>1. i - In \in 1..Want /\ at(i) = Chunk[i - In]
        BY <1>1, <2>1
      <3>2. /\ Chunk \in Seq(Val) /\ Len(Chunk) = Want
            /\ Chunk[i - In] \in OwnUpTo(writes, frame.p, Here + (i - In) - 1)
        BY <3>1, ChunkOwn DEF OwnFrom
      <3>3. Here + (i - In) - 1 = off + i - 1
        <4> HIDE DEF off
        <4> QED BY <1>1
      <3> QED BY <3>1, <3>2, <3>3, SeqElement
    <2>2. CASE ~(i > In /\ i <= In + Want) /\ i <= Len(old)
      <3>1. i \in 1..Len(old) /\ at(i) = old[i]
        BY <2>2
      <3> QED BY <3>1, SeqElement DEF OwnFrom
    <2>3. CASE ~(i > In /\ i <= In + Want) /\ ~(i <= Len(old))
      <3>1. at(i) = Zero
        BY <2>3
      <3> QED BY <3>1 DEF Val, OwnUpTo
    <2> QED BY <2>1, <2>2, <2>3
  <1> HIDE DEF at
  <1>4. r \in Seq(Val) /\ Len(r) = kBlockSize /\ \A i \in 1..kBlockSize : r[i] = at(i)
    BY <1>3, LayoutAssumption
  <1> QED BY <1>2, <1>3, <1>4 DEF OwnFrom

(* What a read copies out is a sequence of cells.                          *)
LEMMA CopiedSeq ==
    ASSUME frame \in Frame, <<frame.off, frame.len>> \in Ranges, frame.done < frame.len
    PROVE  Copied \in Seq(Val)
  <1> DEFINE at(i) == IF In + i <= Len(frame.block) THEN frame.block[In + i] ELSE Junk
  <1>1. In \in Nat /\ Want \in Nat /\ frame.block \in Seq(Val)
    BY HereFacts DEF Frame
  <1>2. ASSUME NEW i \in 1..Want PROVE at(i) \in Val
    <2>1. CASE In + i <= Len(frame.block)
      <3>1. In + i \in 1..Len(frame.block)
        BY <1>1, <2>1
      <3> QED BY <1>1, <2>1, <3>1, SeqElement
    <2>2. CASE ~(In + i <= Len(frame.block))
      BY <2>2 DEF Val
    <2> QED BY <2>1, <2>2
  <1>3. Copied = [i \in 1..Want |-> at(i)]
    BY DEF Copied
  <1> HIDE DEF at
  <1> QED BY <1>1, <1>2, <1>3

-----------------------------------------------------------------------------
(* What a step that leaves a part of the state alone, or changes one worker*)
(* or the call only, keeps.                                                *)

(* Nothing was written to disk.                                            *)
LEMMA DiskKept ==
    ASSUME DiskInv, UNCHANGED <<store, local>>, writes' \in Nat, writes <= writes'
    PROVE  StoreInv' /\ LocalInv'
  <1>1. \A s, p, base : OwnFrom(writes, s, p, base) => OwnFrom(writes', s, p, base)
    BY OwnMonotone DEF DiskInv
  <1>2. \A p \in Paths : ObjectInv(writes', store[p], p)
    BY <1>1 DEF DiskInv, StoreInv, ObjectInv
  <1>3. StoreInv'
    BY <1>2 DEF DiskInv, StoreInv, ObjectInv, OwnFrom, OwnUpTo
  <1>4. \A p \in Paths : OwnFrom(writes', local[p], p, 0)
    BY <1>1 DEF DiskInv, LocalInv
  <1>5. LocalInv'
    BY <1>4 DEF DiskInv, LocalInv, OwnFrom, OwnUpTo
  <1> QED BY <1>3, <1>5

(* No worker has moved.                                                    *)
LEMMA WorkersKept ==
    ASSUME DiskInv, UNCHANGED wk, writes' \in Nat, writes <= writes'
    PROVE  WorkersInv'
  <1>1. \A s, p, base : OwnFrom(writes, s, p, base) => OwnFrom(writes', s, p, base)
    BY OwnMonotone DEF DiskInv
  <1>2. \A w \in Workers : JobInv(writes', wk[w])
    BY <1>1 DEF DiskInv, WorkersInv, JobInv
  <1> QED BY <1>2 DEF DiskInv, WorkersInv, JobInv, OwnFrom, OwnUpTo, Offset

(* Only the call in progress goes on.                                      *)
LEMMA CallGoesOn ==
    ASSUME DiskInv, UNCHANGED <<store, local, wk>>, tasks' \in Seq(Task),
           writes' \in Nat, writes <= writes', CallInv(writes', frame')
    PROVE  DiskInv'
  <1>1. StoreInv' /\ LocalInv' /\ WorkersInv'
    BY DiskKept, WorkersKept
  <1>2. CallInv(writes, frame)'
    BY DEF CallInv, OwnFrom, OwnUpTo, Offset, BlockOf
  <1> QED BY <1>1, <1>2 DEF DiskInv

(* Only one worker goes on, to a state in which its buffer is its own.     *)
LEMMA WorkerGoesOn ==
    ASSUME DiskInv, UNCHANGED <<local, frame, writes>>, StoreInv', tasks' \in Seq(Task),
           NEW w \in Workers, NEW j, JobInv(writes, j), wk' = [wk EXCEPT ![w] = j]
    PROVE  DiskInv'
  <1>1. LocalInv'
    BY DEF DiskInv, LocalInv, OwnFrom, OwnUpTo
  <1>2. CallInv(writes, frame)'
    BY DEF DiskInv, CallInv, OwnFrom, OwnUpTo, Offset, BlockOf
  <1>3. wk' = [v \in Workers |-> wk'[v]] /\ \A v \in Workers : JobInv(writes, wk'[v])
    BY DEF DiskInv, WorkersInv
  <1>4. WorkersInv'
    BY <1>3 DEF WorkersInv, JobInv, OwnFrom, OwnUpTo, Offset
  <1> QED BY <1>1, <1>2, <1>4 DEF DiskInv

(* The step changes nothing that matters here.                             *)
LEMMA Untouched ==
    ASSUME DiskInv, UNCHANGED <<store, local, wk, frame, tasks, writes>>
    PROVE  DiskInv'
  <1>1. writes' \in Nat /\ writes <= writes' /\ tasks' \in Seq(Task)
    BY DEF DiskInv
  <1>2. CallInv(writes', frame')
    BY DEF DiskInv
  <1> QED BY <1>1, <1>2, CallGoesOn

-----------------------------------------------------------------------------
(* The invariant holds initially.                                          *)
LEMMA InitDisk == Init => DiskInv
  <1> SUFFICES ASSUME Init PROVE DiskInv
    OBVIOUS
  <1>2. \A p \in Paths : ObjectInv(0, NoObject, p)
    BY DEF ObjectInv, NoObject, OwnFrom
  <1>3. StoreInv
    BY <1>2 DEF Init, StoreInv
  <1>4. LocalInv
    BY DEF Init, LocalInv, OwnFrom
  <1>5. WorkersInv
    BY DEF Init, WorkersInv, JobInv
  <1> QED BY <1>3, <1>4, <1>5 DEF Init, DiskInv, CallInv

(* Entering a call keeps it, evicted entry or not.                         *)
LEMMA BeginDisk ==
    ASSUME DiskInv, NEW op \in {"read", "write"}, NEW p \in Paths, NEW r \in Ranges,
           Begin(op, p, r[1], r[2])
    PROVE  DiskInv'
  <1>1. r[1] \in Nat /\ r[2] \in Nat /\ <<r[1], r[2]>> \in Ranges
    BY RangeAssumption
  <1>2. writes' \in Nat /\ writes <= writes' /\ tasks' \in Seq(Task)
    BY DEF Begin, DiskInv
  <1>3. UNCHANGED <<store, local, wk>>
    BY DEF Begin, disk
  <1>4. CASE entries[p].evicted
    <2>1. frame' = Idle
      BY <1>4 DEF Begin
    <2> QED BY <1>2, <1>3, <2>1, CallGoesOn DEF CallInv
  <1>5. CASE ~entries[p].evicted
    <2>1. frame' = [pc |-> op, op |-> op, p |-> p, off |-> r[1], len |-> r[2],
                    done |-> 0, block |-> <<>>, out |-> <<>>]
      BY <1>5 DEF Begin
    <2>2. frame' \in Frame /\ frame'.pc \in {"read", "write"}
      BY <1>1, <2>1 DEF Frame, CallPC
    <2>3. CallInv(writes', frame')
      BY <1>1, <2>1, <2>2 DEF CallInv
    <2> QED BY <1>2, <1>3, <2>3, CallGoesOn
  <1> QED BY <1>4, <1>5

(* What the invariant says of a call in progress.                          *)
LEMMA InCall ==
    ASSUME DiskInv, frame.pc # "idle"
    PROVE  /\ frame \in Frame /\ <<frame.off, frame.len>> \in Ranges
           /\ frame.p \in Paths /\ frame.block \in Seq(Val) /\ frame.out \in Seq(Val)
           /\ frame.done \in Nat /\ frame.done <= frame.len
           /\ frame.pc \notin {"read", "write"} => frame.done < frame.len
           /\ frame.pc \in {"fill", "store"} =>
                OwnFrom(writes, frame.block, frame.p, Offset(BlockOf(frame)))
  BY DEF DiskInv, CallInv, Idle, Frame

\* The call moves on to pc with block, or with more done and copied.
Moved(pc, block, out, done) ==
    [frame EXCEPT !.pc = pc, !.block = block, !.out = out, !.done = done]

(* The call may move on if a block to be stored is its own.                *)
LEMMA CallMoves ==
    ASSUME DiskInv, frame.pc # "idle", NEW pc \in CallPC,
           NEW block \in Seq(Val), NEW out \in Seq(Val), NEW done \in Nat,
           done <= frame.len, pc \notin {"read", "write"} => done < frame.len,
           pc \in {"fill", "store"} =>
             done = frame.done /\ OwnFrom(writes, block, frame.p, Offset(BlockOf(frame)))
    PROVE  CallInv(writes, Moved(pc, block, out, done))
  <1> DEFINE f == Moved(pc, block, out, done)
  <1>1. frame \in Frame /\ <<frame.off, frame.len>> \in Ranges
    BY InCall
  <1>2. f \in Frame
    BY <1>1 DEF Frame, Moved
  <1>3. /\ f.off = frame.off /\ f.len = frame.len /\ f.p = frame.p
        /\ f.pc = pc /\ f.block = block /\ f.done = done
    BY <1>1 DEF Frame, Moved
  <1> HIDE DEF f
  <1>4. f.pc \in {"fill", "store"} => OwnFrom(writes, f.block, f.p, Offset(BlockOf(f)))
    <2> SUFFICES ASSUME f.pc \in {"fill", "store"}
                 PROVE  OwnFrom(writes, f.block, f.p, Offset(BlockOf(f)))
      OBVIOUS
    <2>1. BlockOf(f) = BlockOf(frame)
      BY <1>3 DEF BlockOf
    <2> QED BY <1>3, <2>1
  <1>5. CallInv(writes, f)
    BY <1>1, <1>2, <1>3, <1>4 DEF CallInv
  <1> QED BY <1>5 DEF f

(* The call has dealt with a block and is at the next one.                 *)
LEMMA NextBlock ==
    ASSUME DiskInv, frame.pc # "idle", NEW pc \in {"read", "write"},
           NEW out \in Seq(Val), NEW done \in Nat, done <= frame.len
    PROVE  CallInv(writes, Moved(pc, <<>>, out, done))
  <1> DEFINE empty == <<>>
  <1>1. empty \in Seq(Val)
    OBVIOUS
  <1> HIDE DEF empty
  <1>2. pc \in CallPC /\ pc \notin {"fill", "store"}
    BY DEF CallPC
  <1>3. CallInv(writes, Moved(pc, empty, out, done))
    BY <1>1, <1>2, CallMoves
  <1> QED BY <1>3 DEF empty

(* Returning from a call drops the frame.                                  *)
LEMMA FinishDisk == ASSUME DiskInv, Finish PROVE DiskInv'
  <1>1. /\ frame' = Idle /\ UNCHANGED <<store, local, wk, tasks, writes>>
    BY DEF Finish, Return, index, disk, counts
  <1>2. writes' \in Nat /\ writes <= writes' /\ tasks' \in Seq(Task)
    BY <1>1 DEF DiskInv
  <1> QED BY <1>1, <1>2, CallGoesOn DEF CallInv

(* The block that was looked up is not stored again.                       *)
LEMMA ReadStoreDisk == ASSUME DiskInv, ReadStore PROVE DiskInv'
  <1> DEFINE b == readBlock(store[frame.p], Offset(Blk))
             pc == IF Len(b) = kBlockSize THEN "copy" ELSE "download"
  <1>1. /\ frame.pc = "read" /\ frame.done < frame.len
        /\ frame' = [frame EXCEPT !.block = b, !.pc = pc]
        /\ UNCHANGED <<store, local, wk, tasks, writes>>
    BY DEF ReadStore, index, disk, counts
  <1>2. frame.pc # "idle" /\ frame.p \in Paths
    BY <1>1, InCall
  <1>3. b \in Seq(Val)
    BY <1>1, <1>2, InCall, HereFacts, ReadBlockOwn DEF DiskInv, StoreInv
  <1>4. pc \in CallPC /\ pc \notin {"fill", "store"}
    BY DEF CallPC
  <1> HIDE DEF b, pc
  <1>5. frame' = Moved(pc, b, frame.out, frame.done)
    BY <1>1, <1>2, InCall DEF Frame, Moved
  <1>6. CallInv(writes, frame')
    <2>1. frame.out \in Seq(Val) /\ frame.done \in Nat /\ frame.done <= frame.len
      BY <1>2, InCall
    <2> QED BY <1>1, <1>2, <1>3, <1>4, <1>5, <2>1, CallMoves
  <1> QED BY <1>1, <1>6, CallGoesOn DEF DiskInv

(* Taking g_mtx moves no data.                                             *)
LEMMA ReadDownloadDisk == ASSUME DiskInv, ReadDownload PROVE DiskInv'
  <1>1. /\ frame.pc = "download"
        /\ frame' = [frame EXCEPT !.pc = "response"]
        /\ UNCHANGED <<store, local, wk, tasks, writes>>
    BY DEF ReadDownload, index, disk, counts
  <1>2. frame' = Moved("response", frame.block, frame.out, frame.done)
    BY <1>1, InCall DEF Frame, Moved
  <1>3. CallInv(writes, frame')
    <2>1. /\ frame.block \in Seq(Val) /\ frame.out \in Seq(Val)
          /\ frame.done \in Nat /\ frame.done <= frame.len /\ frame.done < frame.len
      BY <1>1, InCall
    <2>2. "response" \in CallPC
      BY DEF CallPC
    <2> QED BY <1>1, <1>2, <2>1, <2>2, CallMoves
  <1> QED BY <1>1, <1>3, CallGoesOn DEF DiskInv

(* Whatever a read fetched belongs to its block.                           *)
LEMMA FetchedOwn ==
    ASSUME DiskInv, NEW p \in Paths, NEW blk \in Nat, NEW ok \in BOOLEAN
    PROVE  /\ Fetched(p, blk, ok) \in Seq(Val)
           /\ OwnFrom(writes, Fetched(p, blk, ok), p, Offset(blk))
  <1>1. writes \in Nat /\ local[p] \in Seq(Val) /\ OwnFrom(writes, local[p], p, 0)
    BY DEF DiskInv, LocalInv
  <1>2. Offset(blk) \in Nat /\ 0 + Offset(blk) = Offset(blk) /\ kBlockSize \in Nat /\ 0 \in Nat
    BY OffsetNat, LayoutAssumption
  <1>3. /\ pread(local[p], kBlockSize, Offset(blk)) \in Seq(Val)
        /\ OwnFrom(writes, pread(local[p], kBlockSize, Offset(blk)), p, 0 + Offset(blk))
    BY ONLY <1>1, <1>2, PreadOwn, p \in Paths
  <1> QED BY <1>1, <1>2, <1>3, DownloadOwn DEF Fetched

(* The answer is a block of its own, or the call returns.                  *)
LEMMA ReadResponseDisk == ASSUME DiskInv, ReadResponse PROVE DiskInv'
  <1>1. frame.pc = "response" /\ UNCHANGED <<store, local, wk, tasks, writes>>
    BY DEF ReadResponse, index, disk
  <1>2. /\ frame \in Frame /\ <<frame.off, frame.len>> \in Ranges /\ frame.p \in Paths
        /\ frame.done < frame.len
    BY <1>1, InCall
  <1>3. Blk \in Nat /\ Blk = BlockOf(frame)
    BY <1>2, HereFacts
  <1>4. PICK ok \in BOOLEAN :
          \/ frame' = [frame EXCEPT !.block = Fetched(frame.p, Blk, ok), !.pc = "fill"]
          \/ frame' = Idle
    BY DEF ReadResponse, Return
  <1> DEFINE got == Fetched(frame.p, Blk, ok)
  <1>5. got \in Seq(Val) /\ OwnFrom(writes, got, frame.p, Offset(BlockOf(frame)))
    BY <1>2, <1>3, FetchedOwn
  <1> HIDE DEF got
  <1>6. CASE frame' = [frame EXCEPT !.block = got, !.pc = "fill"]
    <2>1. frame' = Moved("fill", got, frame.out, frame.done)
      BY <1>2, <1>6 DEF Frame, Moved
    <2>2. frame.out \in Seq(Val) /\ frame.done \in Nat /\ frame.done <= frame.len
      BY <1>1, InCall
    <2>3. "fill" \in CallPC
      BY DEF CallPC
    <2>4. CallInv(writes, frame')
      BY <1>1, <1>2, <1>5, <2>1, <2>2, <2>3, CallMoves
    <2> QED BY <1>1, <2>4, CallGoesOn DEF DiskInv
  <1>7. CASE frame' = Idle
    BY <1>1, <1>7, CallGoesOn DEF DiskInv, CallInv
  <1> QED BY <1>4, <1>6, <1>7 DEF got

(* The call stores its block.                                              *)
LEMMA CallStores ==
    ASSUME DiskInv, UNCHANGED <<local, wk, tasks, writes>>, StoreInv', CallInv(writes, frame')
    PROVE  DiskInv'
  <1>1. LocalInv'
    BY DEF DiskInv, LocalInv, OwnFrom, OwnUpTo
  <1>2. WorkersInv'
    BY WorkersKept DEF DiskInv
  <1>3. CallInv(writes, frame)'
    BY DEF CallInv, OwnFrom, OwnUpTo, Offset, BlockOf
  <1> QED BY <1>1, <1>2, <1>3 DEF DiskInv

(* The call stores a block that is its own.                                *)
LEMMA BlockIsStored ==
    ASSUME DiskInv, frame.pc \in {"fill", "store"}, NEW pc \in {"copy", "mark"},
           StoreWrite(frame.p, frame.block, Blk), frame' = [frame EXCEPT !.pc = pc],
           UNCHANGED <<local, wk, tasks, writes>>
    PROVE  DiskInv'
  <1>1. /\ frame \in Frame /\ <<frame.off, frame.len>> \in Ranges /\ frame.p \in Paths
        /\ frame.block \in Seq(Val) /\ frame.out \in Seq(Val) /\ frame.done \in Nat
        /\ frame.done < frame.len /\ frame.done <= frame.len
        /\ OwnFrom(writes, frame.block, frame.p, Offset(BlockOf(frame)))
    BY InCall
  <1>2. Blk \in Nat /\ Blk = BlockOf(frame)
    BY <1>1, HereFacts
  <1>3. StoreInv'
    BY <1>1, <1>2, StoreWriteOwn DEF DiskInv
  <1>4. frame' = Moved(pc, frame.block, frame.out, frame.done)
    BY <1>1 DEF Frame, Moved
  <1>5. pc \in CallPC /\ pc \notin {"fill", "store"}
    BY DEF CallPC
  <1>6. CallInv(writes, frame')
    BY <1>1, <1>4, <1>5, CallMoves
  <1> QED BY <1>3, <1>6, CallStores

(* The fill of a read.                                                     *)
LEMMA ReadFillDisk == ASSUME DiskInv, ReadFill PROVE DiskInv'
  BY BlockIsStored DEF ReadFill, index

(* The store of a write.                                                   *)
LEMMA WriteStoreDisk == ASSUME DiskInv, WriteStore PROVE DiskInv'
  BY BlockIsStored DEF WriteStore, index

(* The copy empties the block and may schedule a task.                     *)
LEMMA ReadCopyDisk == ASSUME DiskInv, ReadCopy PROVE DiskInv'
  <1>1. /\ frame.pc = "copy"
        /\ frame' = [frame EXCEPT !.pc = "read", !.block = <<>>, !.out = @ \o Copied,
                                  !.done = @ + Want]
        /\ tasks' = IF Sequential THEN Append(tasks, [p |-> frame.p, blk |-> Blk + 1]) ELSE tasks
        /\ UNCHANGED <<store, local, wk, writes>>
    BY DEF ReadCopy, disk, counts
  <1>2. /\ frame \in Frame /\ <<frame.off, frame.len>> \in Ranges /\ frame.p \in Paths
        /\ frame.out \in Seq(Val) /\ frame.done \in Nat /\ frame.done < frame.len
    BY <1>1, InCall
  <1>3. Blk \in Nat /\ Want \in Nat /\ frame.done + Want <= frame.len
    BY <1>2, HereFacts
  <1>4. Copied \in Seq(Val)
    BY <1>2, CopiedSeq
  <1> DEFINE out == frame.out \o Copied
             done == frame.done + Want
  <1>5. out \in Seq(Val) /\ done \in Nat /\ done <= frame.len
    BY <1>2, <1>3, <1>4
  <1>6. frame' = Moved("read", <<>>, out, done)
    BY <1>1, <1>2 DEF Frame, Moved
  <1> HIDE DEF out, done
  <1>7. CallInv(writes, Moved("read", <<>>, out, done))
    BY <1>1, <1>5, NextBlock
  <1>8. CallInv(writes, frame')
    BY <1>6, <1>7
  <1>9. tasks' \in Seq(Task)
    <2>1. [p |-> frame.p, blk |-> Blk + 1] \in Task /\ tasks \in Seq(Task)
      BY <1>2, <1>3 DEF Task, DiskInv
    <2> QED BY <1>1, <2>1
  <1> QED BY <1>1, <1>8, <1>9, CallGoesOn DEF DiskInv

(* The merge makes a block that is its own.                                *)
LEMMA WriteLoadDisk == ASSUME DiskInv, WriteLoad PROVE DiskInv'
  <1> DEFINE old == readBlock(store[frame.p], Offset(Blk))
             new == Merged(old)
  <1>1. /\ frame.pc = "write" /\ frame.done < frame.len
        /\ frame' = [frame EXCEPT !.pc = "store", !.block = new]
        /\ UNCHANGED <<store, local, wk, tasks, writes>>
    BY DEF WriteLoad, index, disk, counts
  <1>2. /\ frame \in Frame /\ <<frame.off, frame.len>> \in Ranges /\ frame.p \in Paths
        /\ frame.out \in Seq(Val) /\ frame.done \in Nat /\ frame.done <= frame.len
        /\ writes \in Nat
    BY <1>1, InCall DEF DiskInv
  <1>3. Offset(Blk) \in Nat /\ PartOf(Offset(Blk)) \in Parts /\ Blk = BlockOf(frame)
    BY <1>1, <1>2, HereFacts
  <1>4. old \in Seq(Val) /\ OwnFrom(writes, old, frame.p, Offset(Blk))
    BY <1>2, <1>3, ReadBlockOwn DEF DiskInv, StoreInv
  <1> HIDE DEF old
  <1>5. new \in Seq(Val) /\ OwnFrom(writes, new, frame.p, Offset(BlockOf(frame)))
    BY <1>1, <1>2, <1>3, <1>4, MergedOwn
  <1> HIDE DEF new
  <1>6. frame' = Moved("store", new, frame.out, frame.done)
    BY <1>1, <1>2 DEF Frame, Moved
  <1>7. "store" \in CallPC
    BY DEF CallPC
  <1>8. CallInv(writes, frame')
    BY <1>1, <1>2, <1>5, <1>6, <1>7, CallMoves
  <1> QED BY <1>1, <1>8, CallGoesOn DEF DiskInv

(* The dirty bit is not data.                                              *)
LEMMA WriteMarkDisk == ASSUME DiskInv, WriteMark PROVE DiskInv'
  <1>1. /\ frame.pc = "mark" /\ frame' = [frame EXCEPT !.pc = "track"]
        /\ UNCHANGED <<store, local, wk, tasks, writes>>
    BY DEF WriteMark, disk, counts
  <1>2. /\ frame \in Frame /\ frame.block \in Seq(Val) /\ frame.out \in Seq(Val)
        /\ frame.done \in Nat /\ frame.done <= frame.len /\ frame.done < frame.len
    BY <1>1, InCall
  <1>3. frame' = Moved("track", frame.block, frame.out, frame.done)
    BY <1>1, <1>2 DEF Frame, Moved
  <1>4. "track" \in CallPC
    BY DEF CallPC
  <1>5. CallInv(writes, frame')
    BY <1>1, <1>2, <1>3, <1>4, CallMoves
  <1> QED BY <1>1, <1>5, CallGoesOn DEF DiskInv

(* The plain copy gets the chunk at its offset.                            *)
LEMMA WriteTrackDisk == ASSUME DiskInv, WriteTrack PROVE DiskInv'
  <1>1. /\ frame.pc = "track"
        /\ frame' = [frame EXCEPT !.pc = "write", !.block = <<>>, !.done = @ + Want]
        /\ local' = [local EXCEPT ![frame.p] = Plain(@)] \/ UNCHANGED local
        /\ UNCHANGED <<store, wk, tasks, writes>>
    BY DEF WriteTrack
  <1>2. /\ frame \in Frame /\ <<frame.off, frame.len>> \in Ranges /\ frame.p \in Paths
        /\ frame.out \in Seq(Val) /\ frame.done \in Nat /\ frame.done < frame.len
        /\ writes \in Nat
    BY <1>1, InCall DEF DiskInv
  <1>3. Want \in Nat /\ frame.done + Want <= frame.len /\ Here \in Nat
    BY <1>2, HereFacts
  <1> DEFINE done == frame.done + Want
             new == Plain(local[frame.p])
  <1>4. done \in Nat /\ done <= frame.len
    BY <1>2, <1>3
  <1>5. frame' = Moved("write", <<>>, frame.out, done)
    BY <1>1, <1>2 DEF Frame, Moved
  <1>6. CallInv(writes, frame')
    <2> HIDE DEF done
    <2>1. CallInv(writes, Moved("write", <<>>, frame.out, done))
      BY <1>1, <1>2, <1>4, NextBlock
    <2> QED BY <1>5, <2>1
  <1>7. new \in Seq(Val) /\ OwnFrom(writes, new, frame.p, 0)
    <2>1. /\ Chunk \in Seq(Val) /\ OwnFrom(writes, Chunk, frame.p, 0 + Here)
      <3>1. 0 + Here = Here
        BY <1>3
      <3> QED BY <1>2, <3>1, ChunkOwn
    <2>2. local[frame.p] \in Seq(Val) /\ OwnFrom(writes, local[frame.p], frame.p, 0)
      BY <1>2 DEF DiskInv, LocalInv
    <2>3. 0 \in Nat
      OBVIOUS
    <2> QED BY <1>2, <1>3, <2>1, <2>2, <2>3, PwriteOwn DEF Plain
  <1> HIDE DEF done, new
  <1>8. local' \in [Paths -> Seq(Val)] /\ \A p \in Paths : OwnFrom(writes, local'[p], p, 0)
    <2>1. CASE UNCHANGED local
      BY <2>1 DEF DiskInv, LocalInv
    <2>2. CASE local' = [local EXCEPT ![frame.p] = Plain(@)]
      <3>1. local' = [local EXCEPT ![frame.p] = new]
        BY <2>2 DEF new
      <3> QED BY <1>2, <1>7, <3>1 DEF DiskInv, LocalInv
    <2> QED BY <1>1, <2>1, <2>2
  <1>9. LocalInv'
    BY <1>1, <1>8 DEF LocalInv, OwnFrom, OwnUpTo
  <1>10. StoreInv'
    BY <1>1 DEF DiskInv, StoreInv, ObjectInv, OwnFrom, OwnUpTo
  <1>11. WorkersInv'
    BY <1>1, WorkersKept DEF DiskInv
  <1>12. CallInv(writes, frame)'
    BY <1>1, <1>6 DEF CallInv, OwnFrom, OwnUpTo, Offset, BlockOf
  <1> QED BY <1>1, <1>9, <1>10, <1>11, <1>12 DEF DiskInv

-----------------------------------------------------------------------------
(* The prefetch workers.                                                   *)

(* What the invariant says of a worker with a task.                        *)
LEMMA InJob ==
    ASSUME DiskInv, NEW w \in Workers, wk[w].pc # "idle"
    PROVE  /\ wk[w] \in Job /\ wk[w].p \in Paths /\ wk[w].blk \in Nat
           /\ wk[w].left \in Int /\ wk[w].buf \in Seq(Val)
           /\ wk[w].pc = "fill" => OwnFrom(writes, wk[w].buf, wk[w].p, Offset(wk[w].blk))
  BY DEF DiskInv, WorkersInv, JobInv, Idle, Job

(* The store is as before and one worker goes on.                          *)
LEMMA WorkerSteps ==
    ASSUME DiskInv, UNCHANGED <<store, local, frame, writes>>, tasks' \in Seq(Task),
           NEW w \in Workers, NEW j, JobInv(writes, j), wk' = [wk EXCEPT ![w] = j]
    PROVE  DiskInv'
  <1>1. StoreInv'
    BY DiskKept DEF DiskInv
  <1> QED BY <1>1, WorkerGoesOn

(* The worker drops its buffer and goes to the next block.                 *)
LEMMA AdvanceDisk ==
    ASSUME DiskInv, NEW w \in Workers, wk[w].pc # "idle", Advance(w),
           UNCHANGED <<store, local, frame, tasks, writes>>
    PROVE  DiskInv'
  <1> DEFINE blk == wk[w].blk + 1
             left == wk[w].left - 1
             empty == <<>>
             j == [wk[w] EXCEPT !.pc = "check", !.blk = blk, !.left = left, !.buf = empty]
  <1>1. wk[w] \in Job /\ blk \in Nat /\ left \in Int /\ empty \in Seq(Val)
    BY InJob
  <1>2. wk' = [wk EXCEPT ![w] = j]
    BY DEF Advance
  <1> HIDE DEF blk, left, empty
  <1>3. j \in Job /\ j.pc = "check"
    BY <1>1 DEF Job, JobPC
  <1> HIDE DEF j
  <1>4. JobInv(writes, j)
    BY <1>3 DEF JobInv
  <1> QED BY <1>2, <1>4, WorkerSteps DEF DiskInv

(* A worker takes the first task, with an empty buffer.                    *)
LEMMA PrefetchTakeDisk ==
    ASSUME DiskInv, NEW w \in Workers, PrefetchTake(w)
    PROVE  DiskInv'
  <1> DEFINE t == Head(tasks)
             job(a) == [pc |-> "check", p |-> t.p, blk |-> t.blk, left |-> PREFETCH_WINDOW,
                        buf |-> <<>>, at |-> a]
  <1>0. PICK a \in CopyAt : wk' = [wk EXCEPT ![w] = job(a)]
    BY DEF PrefetchTake
  <1> DEFINE j == job(a)
  <1>1. /\ tasks # <<>> /\ tasks' = Tail(tasks) /\ wk' = [wk EXCEPT ![w] = j]
        /\ UNCHANGED <<store, local, frame, writes>>
    BY <1>0 DEF PrefetchTake, disk, counts
  <1>2. t \in Task /\ tasks' \in Seq(Task)
    <2> DEFINE S == Task
    <2>1. tasks \in Seq(S)
      BY DEF DiskInv
    <2> HIDE DEF S
    <2>2. Head(tasks) \in S /\ Tail(tasks) \in Seq(S)
      BY <1>1, <2>1
    <2> QED BY <1>1, <2>2 DEF S
  <1>3. j \in Job /\ j.pc = "check"
    <2>1. t.p \in Paths /\ t.blk \in Nat
      BY <1>2 DEF Task
    <2> HIDE DEF t
    <2> QED BY <1>0, <2>1, WindowAssumption DEF Job, JobPC
  <1> HIDE DEF j
  <1>4. JobInv(writes, j)
    BY <1>3 DEF JobInv
  <1> QED BY <1>1, <1>2, <1>4, WorkerSteps

(* A worker whose window is done is idle.                                  *)
LEMMA PrefetchDoneDisk ==
    ASSUME DiskInv, NEW w \in Workers, PrefetchDone(w)
    PROVE  DiskInv'
  <1>1. wk' = [wk EXCEPT ![w] = Idle] /\ UNCHANGED <<store, local, frame, tasks, writes>>
    BY DEF PrefetchDone, index, disk, counts
  <1>2. JobInv(writes, Idle)
    BY DEF JobInv
  <1> QED BY <1>1, <1>2, WorkerSteps DEF DiskInv

(* A worker whose task is at another point, with no buffer to store.       *)
LEMMA WorkerMoves ==
    ASSUME DiskInv, NEW w \in Workers, wk[w].pc # "idle", NEW pc \in JobPC, pc # "fill",
           wk' = [wk EXCEPT ![w].pc = pc], StoreInv',
           UNCHANGED <<local, frame, tasks, writes>>
    PROVE  DiskInv'
  <1> DEFINE j == [wk[w] EXCEPT !.pc = pc]
  <1>1. wk[w] \in Job
    BY InJob
  <1>2. j \in Job /\ j.pc = pc
    BY <1>1 DEF Job
  <1>3. wk' = [wk EXCEPT ![w] = j]
    OBVIOUS
  <1> HIDE DEF j
  <1>4. JobInv(writes, j)
    BY <1>2 DEF JobInv
  <1> QED BY <1>3, <1>4, WorkerGoesOn DEF DiskInv

(* The look in the store changes nothing on disk.                          *)
LEMMA PrefetchCheckDisk ==
    ASSUME DiskInv, NEW w \in Workers, PrefetchCheck(w)
    PROVE  DiskInv'
  <1>1. wk[w].pc = "check" /\ UNCHANGED <<store, local, frame, tasks, writes>>
    BY DEF PrefetchCheck, index, disk, counts
  <1>2. CASE Advance(w)
    BY <1>1, <1>2, AdvanceDisk
  <1>3. CASE wk' = [wk EXCEPT ![w].pc = "download"]
    <2>1. StoreInv' /\ "download" \in JobPC
      BY <1>1, DiskKept DEF DiskInv, JobPC
    <2> QED BY <1>1, <1>3, <2>1, WorkerMoves
  <1> QED BY <1>2, <1>3 DEF PrefetchCheck

(* Nor does taking g_mtx.                                                  *)
LEMMA PrefetchDownloadDisk ==
    ASSUME DiskInv, NEW w \in Workers, PrefetchDownload(w)
    PROVE  DiskInv'
  <1>1. /\ wk[w].pc = "download" /\ wk' = [wk EXCEPT ![w].pc = "response"]
        /\ UNCHANGED <<store, local, frame, tasks, writes>>
    BY DEF PrefetchDownload, index, disk, counts
  <1>2. StoreInv' /\ "response" \in JobPC
    BY <1>1, DiskKept DEF DiskInv, JobPC
  <1> QED BY <1>1, <1>2, WorkerMoves

(* The buffer is what was downloaded for its block.                        *)
LEMMA PrefetchResponseDisk ==
    ASSUME DiskInv, NEW w \in Workers, PrefetchResponse(w)
    PROVE  DiskInv'
  <1> DEFINE got == download(wk[w].p, wk[w].blk)
             j == [wk[w] EXCEPT !.pc = "fill", !.buf = got]
  <1>1. wk[w].pc = "response" /\ UNCHANGED <<store, local, frame, tasks, writes>>
    BY DEF PrefetchResponse, index, disk
  <1>2. CASE Advance(w)
    BY <1>1, <1>2, AdvanceDisk
  <1>3. CASE wk' = [wk EXCEPT ![w] = j]
    <2>1. wk[w] \in Job /\ wk[w].p \in Paths /\ wk[w].blk \in Nat /\ writes \in Nat
      BY <1>1, InJob DEF DiskInv
    <2>2. got \in Seq(Val) /\ OwnFrom(writes, got, wk[w].p, Offset(wk[w].blk))
      BY <2>1, DownloadOwn
    <2> HIDE DEF got
    <2>3. /\ j \in Job /\ j.buf = got /\ j.p = wk[w].p /\ j.blk = wk[w].blk
      BY <2>1, <2>2 DEF Job, JobPC
    <2> HIDE DEF j
    <2>4. JobInv(writes, j)
      BY <2>2, <2>3 DEF JobInv
    <2> QED BY <1>1, <1>3, <2>4, WorkerSteps DEF DiskInv
  <1> QED BY <1>2, <1>3 DEF PrefetchResponse

(* The worker stores a buffer that is its own.                             *)
LEMMA PrefetchFillDisk ==
    ASSUME DiskInv, NEW w \in Workers, PrefetchFill(w)
    PROVE  DiskInv'
  <1>1. /\ wk[w].pc = "fill" /\ wk' = [wk EXCEPT ![w].pc = "touch"]
        /\ StoreWrite(wk[w].p, wk[w].buf, wk[w].blk)
        /\ UNCHANGED <<local, frame, tasks, writes>>
    BY DEF PrefetchFill, index
  <1>2. /\ wk[w].p \in Paths /\ wk[w].blk \in Nat /\ wk[w].buf \in Seq(Val)
        /\ OwnFrom(writes, wk[w].buf, wk[w].p, Offset(wk[w].blk))
    BY <1>1, InJob
  <1>3. StoreInv' /\ "touch" \in JobPC
    BY <1>1, <1>2, StoreWriteOwn DEF DiskInv, JobPC
  <1> QED BY <1>1, <1>3, WorkerMoves

(* The touch changes the policy only.                                      *)
LEMMA PrefetchTouchDisk ==
    ASSUME DiskInv, NEW w \in Workers, PrefetchTouch(w)
    PROVE  DiskInv'
  <1>1. /\ wk[w].pc = "touch" /\ Advance(w)
        /\ UNCHANGED <<store, local, frame, tasks, writes>>
    BY DEF PrefetchTouch, disk, counts
  <1> QED BY <1>1, AdvanceDisk

-----------------------------------------------------------------------------
(* Eviction, restarts and the rest.                                        *)

(* A deleted object holds nothing.                                         *)
LEMMA NoObjectOwn ==
    ASSUME NEW n, NEW p
    PROVE  ObjectInv(n, NoObject, p)
  BY DEF ObjectInv, NoObject, OwnFrom

(* Deleting an object leaves the others alone.                             *)
LEMMA EvictDeleteDisk ==
    ASSUME DiskInv, NEW e \in Evictors, EvictDelete(e)
    PROVE  DiskInv'
  <1> DEFINE p == ev[e].p
  <1>1. /\ store' = [store EXCEPT ![p] = NoObject]
        /\ UNCHANGED <<local, frame, wk, tasks, writes>>
    BY DEF EvictDelete, index, counts
  <1> HIDE DEF p
  <1>2. store = [q \in Paths |-> store[q]] /\ \A q \in Paths : ObjectInv(writes, store[q], q)
    BY DEF DiskInv, StoreInv
  <1>3. store' = [q \in Paths |-> store'[q]]
    BY <1>1, <1>2
  <1>4. \A q \in Paths : ObjectInv(writes, store'[q], q)
    <2> SUFFICES ASSUME NEW q \in Paths PROVE ObjectInv(writes, store'[q], q)
      OBVIOUS
    <2>1. store'[q] = store[q] \/ store'[q] = NoObject
      BY <1>1, <1>2
    <2> QED BY <1>2, <2>1, NoObjectOwn
  <1>5. StoreInv'
    BY <1>1, <1>3, <1>4 DEF StoreInv, ObjectInv, OwnFrom, OwnUpTo
  <1>6. CallInv(writes, frame')
    BY <1>1 DEF DiskInv
  <1> QED BY <1>1, <1>5, <1>6, CallStores

(* No other step of an eviction writes cells.                              *)
LEMMA EvictStepDisk ==
    ASSUME DiskInv, NEW e \in Evictors, EvictStep(e)
    PROVE  DiskInv'
  <1>1. CASE EvictCheck(e)
    BY <1>1, Untouched DEF EvictCheck, index, disk, counts
  <1>2. CASE EvictPop(e)
    BY <1>2, Untouched DEF EvictPop, disk, counts
  <1>3. CASE EvictDelete(e)
    BY <1>3, EvictDeleteDisk
  <1>4. CASE EvictFlush(e) \/ EvictMark(e)
    BY <1>4, Untouched DEF EvictFlush, EvictMark, index, disk, counts
  <1> QED BY <1>1, <1>2, <1>3, <1>4 DEF EvictStep

(* A flush changes the bitmaps on disk and counts failures.                *)
Flushing == FlushLoop \/ \E f \in Evictors \cup {Caller} : FlushStep(f)

LEMMA FlushKeeps ==
    ASSUME Flushing
    PROVE  /\ UNCHANGED <<entries, bitmap, lru, tasks, gmtx, store, local, frame, ret, wk, ev,
                          latest, since, writes, ops, crashes>>
           /\ UNCHANGED faults \/ Fault("disk")
  <1>1. CASE FlushLoop
    BY <1>1 DEF FlushLoop, FlushReturn, FlushNext, index, disk, history, counts
  <1>2. ASSUME NEW f \in Evictors \cup {Caller}, FlushStep(f)
        PROVE  /\ UNCHANGED <<entries, bitmap, lru, tasks, gmtx, store, local, frame, ret, wk, ev,
                              latest, since, writes, ops, crashes>>
               /\ UNCHANGED faults \/ Fault("disk")
    <2>1. CASE PersistWrite(f)
      BY <2>1 DEF PersistWrite, index, history, Fine
    <2>2. ASSUME NEW k \in Parts, PersistOpen(f, k)
          PROVE  /\ UNCHANGED <<entries, bitmap, lru, tasks, gmtx, store, local, frame, ret, wk, ev,
                                latest, since, writes, ops, crashes>>
                 /\ UNCHANGED faults \/ Fault("disk")
      BY <2>2 DEF PersistOpen, index, history, Fine
    <2> QED BY <1>2, <2>1, <2>2 DEF FlushStep
  <1> QED BY <1>1, <1>2 DEF Flushing

(* A dying process leaves the disk as it is and forgets every buffer.      *)
LEMMA RestartedDisk == ASSUME DiskInv, Restarted PROVE DiskInv'
  <1>1. /\ frame' = Idle /\ tasks' = <<>> /\ wk' = [w \in Workers |-> Idle]
        /\ UNCHANGED <<store, local, writes>>
    BY DEF Restarted, disk
  <1>2. writes' \in Nat /\ writes <= writes'
    BY <1>1 DEF DiskInv
  <1>3. StoreInv' /\ LocalInv'
    BY <1>1, <1>2, DiskKept
  <1>4. WorkersInv'
    BY <1>1 DEF WorkersInv, JobInv
  <1>5. CallInv(writes, frame)'
    BY <1>1 DEF CallInv
  <1> QED BY <1>1, <1>2, <1>3, <1>4, <1>5 DEF DiskInv

(* Every step of a call keeps the invariant.                               *)
LEMMA CallStepDisk == ASSUME DiskInv, CallStep PROVE DiskInv'
  BY FinishDisk, ReadStoreDisk, ReadDownloadDisk, ReadResponseDisk, ReadFillDisk,
     ReadCopyDisk, WriteLoadDisk, WriteStoreDisk, WriteMarkDisk, WriteTrackDisk
  DEF CallStep

(* Every step of a prefetch task keeps it.                                 *)
LEMMA PrefetchStepDisk ==
    ASSUME DiskInv, NEW w \in Workers, PrefetchStep(w)
    PROVE  DiskInv'
  BY PrefetchTakeDisk, PrefetchDoneDisk, PrefetchCheckDisk, PrefetchDownloadDisk,
     PrefetchResponseDisk, PrefetchFillDisk, PrefetchTouchDisk
  DEF PrefetchStep

(* The invariant is inductive.                                             *)
LEMMA NextDisk == DiskInv /\ [Next]_vars => DiskInv'
  <1> SUFFICES ASSUME DiskInv, [Next]_vars PROVE DiskInv'
    OBVIOUS
  <1>1. ASSUME NEW op \in {"read", "write"}, NEW p \in Paths, NEW r \in Ranges,
               Begin(op, p, r[1], r[2])
        PROVE  DiskInv'
    BY <1>1, BeginDisk
  <1>2. CASE CallStep
    BY <1>2, CallStepDisk
  <1>3. CASE FlushAll
    BY <1>3, Untouched DEF FlushAll, index, disk
  <1>4. CASE Cleanup
    BY <1>4, Untouched DEF Cleanup, index, disk, counts
  <1>5. ASSUME NEW e \in Evictors, NEW n \in Limits, EvictBegin(e, n)
        PROVE  DiskInv'
    BY <1>5, Untouched DEF EvictBegin, index, disk
  <1>6. ASSUME NEW e \in Evictors, EvictStep(e)
        PROVE  DiskInv'
    BY <1>6, EvictStepDisk
  <1>7. ASSUME NEW w \in Workers, PrefetchStep(w)
        PROVE  DiskInv'
    BY <1>7, PrefetchStepDisk
  <1>8. CASE Restarted
    BY <1>8, RestartedDisk
  <1>9. CASE UNCHANGED vars
    BY <1>9, Untouched DEF vars, index, disk, counts
  <1>10. CASE Flushing
    BY <1>10, FlushKeeps, Untouched
  <1> QED BY <1>1, <1>2, <1>3, <1>4, <1>5, <1>6, <1>7, <1>8, <1>9, <1>10
          DEF Next, Rest, Crash, EvictDies, Flushing

(* The invariant is strong enough.                                         *)
LEMMA DiskIsOwn == DiskInv => NoForeignData
  <1> SUFFICES ASSUME DiskInv, NEW p \in Paths
               PROVE  /\ \A k \in Parts : \A i \in 1..Len(store[p][k]) :
                           store[p][k][i] \in Own(p, CellAt(k, i))
                      /\ \A i \in 1..Len(local[p]) : local[p][i] \in Own(p, i - 1)
    BY DEF NoForeignData
  <1>1. \A c : Own(p, c) = OwnUpTo(writes, p, c)
    BY DEF Own, OwnUpTo
  <1>2. ASSUME NEW k \in Parts, NEW i \in 1..Len(store[p][k])
        PROVE  store[p][k][i] \in Own(p, CellAt(k, i))
    BY <1>1 DEF DiskInv, StoreInv, ObjectInv, OwnFrom, CellAt
  <1>3. ASSUME NEW i \in 1..Len(local[p])
        PROVE  local[p][i] \in Own(p, i - 1)
    <2>1. local[p][i] \in OwnUpTo(writes, p, 0 + i - 1)
      BY DEF DiskInv, LocalInv, OwnFrom
    <2>2. 0 + i - 1 = i - 1
      BY DEF DiskInv, LocalInv
    <2> QED BY <1>1, <2>1, <2>2
  <1> QED BY <1>2, <1>3

(* However reads, writes, prefetches, evictions, failing downloads, failing*)
(* file writes and crashes are mixed, a cell of the block store or of a    *)
(* plain copy is a hole or holds data of its own path and offset           *)
(* (block_store.cc:45-46, 62-63; cache_manager.cc:107, 153, 203).          *)
THEOREM DiskHoldsOwnData == Spec => []NoForeignData
  <1>1. Init => DiskInv
    BY InitDisk
  <1>2. DiskInv /\ [Next]_vars => DiskInv'
    BY NextDisk
  <1>3. DiskInv => NoForeignData
    BY DiskIsOwn
  <1> QED BY <1>1, <1>2, <1>3, PTL DEF Spec

-----------------------------------------------------------------------------
(* Types.  What TypeOK needs beyond DiskInv: the index and the bitmaps, the*)
(* evictors, and no part longer than kMaxPartSize, because no buffer is    *)
(* longer than a block and no block crosses the end of a part.             *)

Entry == [present : BOOLEAN, evicted : BOOLEAN, last : Nat \cup {NoBlock}]

IndexInv ==
    /\ phase \in {"up", "closing", "released"} /\ gmtx \in {"free", "held"}
    /\ entries \in [Paths -> Entry]
    /\ bitmap \in [Paths -> SUBSET (Parts \X Nat)]
    /\ dmap \in [Paths -> SUBSET (Parts \X Nat)]

EvictInv(r) ==
    \/ r = Idle
    \/ /\ DOMAIN r = {"pc", "limit", "ref", "p"}
       /\ r.pc \in {"check", "pop", "delete", "flush", "mark"}
       /\ r.pc \in {"delete", "flush", "mark"} => r.p \in Paths

EvictorsInv ==
    /\ ev = [e \in Evictors |-> ev[e]]
    /\ \A e \in Evictors : EvictInv(ev[e])

Flush == [st : {"open", "write", "orphan"}, p : Paths \cup {"none"}, todo : SUBSET Parts,
          k : Nat, bits : SUBSET (Parts \X Nat), rest : SUBSET Paths]

FlushInv(r) ==
    \/ r = NoFlush
    \/ r \in Flush /\ ((r.st = "open" /\ r.todo = {}) \/ r.p \in Paths)

FlushesInv ==
    /\ fl = [f \in Evictors \cup {Caller} |-> fl[f]]
    /\ \A f \in Evictors \cup {Caller} : FlushInv(fl[f])

StoreSizes == \A p \in Paths, k \in Parts : Len(store[p][k]) <= kMaxPartSize
FrameSize == frame.pc \in {"fill", "store"} => Len(frame.block) <= kBlockSize
JobSizes == \A w \in Workers : wk[w].pc = "fill" => Len(wk[w].buf) <= kBlockSize

SizeInv == StoreSizes /\ FrameSize /\ JobSizes

TypeAll == DiskInv /\ IndexInv /\ EvictorsInv /\ FlushesInv /\ SizeInv

(* The steps of a call keep the index well formed.                         *)
LEMMA CallStepIndex ==
    ASSUME DiskInv, IndexInv, CallStep
    PROVE  IndexInv'
  <1>1. CASE UNCHANGED <<phase, gmtx, entries, bitmap, dmap>>
    BY <1>1 DEF IndexInv
  <1>2. CASE Finish \/ ReadStore \/ ReadFill \/ WriteLoad \/ WriteStore \/ WriteTrack
    BY <1>1, <1>2 DEF Finish, ReadStore, ReadFill, WriteLoad, WriteStore, WriteTrack, index, disk
  <1>3. CASE ReadDownload \/ ReadResponse
    BY <1>3 DEF ReadDownload, ReadResponse, IndexInv, index, disk
  <1>4. CASE ReadCopy
    <2>1. frame \in Frame /\ <<frame.off, frame.len>> \in Ranges /\ frame.done < frame.len
          /\ frame.p \in Paths
      BY <1>4, InCall DEF ReadCopy
    <2>2. Blk \in Nat
      BY <2>1, HereFacts
    <2>3. entries' = [entries EXCEPT ![frame.p].last = Blk]
      BY <1>4 DEF ReadCopy
    <2>4. entries' \in [Paths -> Entry]
      BY <2>1, <2>2, <2>3 DEF IndexInv, Entry
    <2> QED BY <1>4, <2>4 DEF ReadCopy, IndexInv, disk
  <1>5. CASE WriteMark
    <2>1. frame \in Frame /\ <<frame.off, frame.len>> \in Ranges /\ frame.done < frame.len
          /\ frame.p \in Paths
      BY <1>5, InCall DEF WriteMark
    <2>2. <<PartOf(Offset(Blk)), Blk>> \in Parts \X Nat
      BY <2>1, HereFacts
    <2>3. bitmap' = [bitmap EXCEPT ![frame.p] = @ \cup {<<PartOf(Offset(Blk)), Blk>>}]
      BY <1>5 DEF WriteMark, Marked
    <2>4. bitmap' \in [Paths -> SUBSET (Parts \X Nat)]
      BY <2>1, <2>2, <2>3 DEF IndexInv
    <2> QED BY <1>5, <2>4 DEF WriteMark, IndexInv, disk
  <1> QED BY <1>2, <1>3, <1>4, <1>5 DEF CallStep

(* So do those of an eviction.                                             *)
LEMMA EvictStepIndex ==
    ASSUME IndexInv, NEW e \in Evictors, EvictStep(e)
    PROVE  IndexInv'
  <1>1. CASE UNCHANGED <<phase, gmtx, entries, bitmap, dmap>>
    BY <1>1 DEF IndexInv
  <1>2. CASE EvictCheck(e) \/ EvictPop(e)
    BY <1>1, <1>2 DEF EvictCheck, EvictPop, index, disk
  <1>3. CASE EvictDelete(e)
    <2>1. dmap' = [dmap EXCEPT ![ev[e].p] = {}] /\ UNCHANGED <<phase, gmtx, entries, bitmap>>
      BY <1>3 DEF EvictDelete, index
    <2> QED BY <2>1 DEF IndexInv
  <1>4. CASE EvictFlush(e)
    BY <1>1, <1>4 DEF EvictFlush, index, disk
  <1>5. CASE EvictMark(e)
    <2> DEFINE p == ev[e].p
    <2>1. /\ entries' = entries \/ entries' = [entries EXCEPT ![p].evicted = TRUE]
          /\ UNCHANGED <<phase, gmtx, bitmap, dmap>>
      BY <1>5 DEF EvictMark, disk
    <2> HIDE DEF p
    <2>2. entries' \in [Paths -> Entry]
      BY <2>1 DEF IndexInv, Entry
    <2> QED BY <2>1, <2>2 DEF IndexInv
  <1> QED BY <1>2, <1>3, <1>4, <1>5 DEF EvictStep

(* So does a flush.                                                        *)
LEMMA FlushIndex ==
    ASSUME IndexInv, FlushesInv, Flushing
    PROVE  IndexInv'
  <1>0. UNCHANGED <<entries, bitmap, gmtx>>
    BY FlushKeeps
  <1>1. CASE FlushLoop
    BY <1>0, <1>1 DEF FlushLoop, FlushReturn, FlushNext, IndexInv, disk
  <1>2. ASSUME NEW f \in Evictors \cup {Caller}, FlushStep(f)
        PROVE  dmap' \in [Paths -> SUBSET (Parts \X Nat)] /\ UNCHANGED phase
    <2> DEFINE p == fl[f].p
    <2>1. ASSUME NEW new, dmap' = dmap \/ dmap' = [dmap EXCEPT ![p] = new],
                 p \in Paths => new \in SUBSET (Parts \X Nat)
          PROVE  dmap' \in [Paths -> SUBSET (Parts \X Nat)]
      <3> HIDE DEF p
      <3> QED BY <2>1 DEF IndexInv
    <2>2. CASE PersistWrite(f)
      <3> DEFINE new == Overlaid(dmap[p], fl[f].k, fl[f].bits)
      <3>1. fl[f] \in Flush
        BY <2>2 DEF PersistWrite, FlushesInv, FlushInv, NoFlush
      <3>2. p \in Paths => new \in SUBSET (Parts \X Nat)
        BY <3>1 DEF Overlaid, IndexInv, Flush
      <3>3. (dmap' = dmap \/ dmap' = [dmap EXCEPT ![p] = new]) /\ UNCHANGED phase
        BY <2>2 DEF PersistWrite
      <3> HIDE DEF new, p
      <3> QED BY <2>1, <3>2, <3>3
    <2>3. ASSUME NEW k \in Parts, PersistOpen(f, k)
          PROVE  dmap' \in [Paths -> SUBSET (Parts \X Nat)] /\ UNCHANGED phase
      <3> DEFINE new == {d \in dmap[p] : d[1] # k}
      <3>1. p \in Paths => new \in SUBSET (Parts \X Nat)
        BY DEF IndexInv
      <3>2. (dmap' = dmap \/ dmap' = [dmap EXCEPT ![p] = new]) /\ UNCHANGED phase
        BY <2>3 DEF PersistOpen
      <3> HIDE DEF new, p
      <3> QED BY <2>1, <3>1, <3>2
    <2> QED BY <1>2, <2>2, <2>3 DEF FlushStep
  <1> QED BY <1>0, <1>1, <1>2 DEF Flushing, IndexInv

(* So does every step.                                                     *)
LEMMA NextIndex ==
    ASSUME DiskInv, IndexInv, FlushesInv, [Next]_vars
    PROVE  IndexInv'
  <1>1. CASE UNCHANGED <<phase, gmtx, entries, bitmap, dmap>>
    BY <1>1 DEF IndexInv
  <1>2. ASSUME NEW op \in {"read", "write"}, NEW p \in Paths, NEW r \in Ranges,
               Begin(op, p, r[1], r[2])
        PROVE  IndexInv'
    <2>1. entries' = [entries EXCEPT ![p].present = TRUE] /\ UNCHANGED <<phase, gmtx, bitmap, dmap>>
      BY <1>2 DEF Begin, disk
    <2> QED BY <2>1 DEF IndexInv, Entry
  <1>3. CASE FlushAll
    BY <1>3, <1>1 DEF FlushAll, index, disk
  <1>4. CASE Cleanup
    BY <1>4 DEF Cleanup, IndexInv, index, disk
  <1>5. ASSUME NEW e \in Evictors, NEW n \in Limits, EvictBegin(e, n)
        PROVE  IndexInv'
    BY <1>1, <1>5 DEF EvictBegin, index, disk
  <1>6. ASSUME NEW w \in Workers, PrefetchStep(w)
        PROVE  IndexInv'
    <2>1. CASE PrefetchDownload(w) \/ PrefetchResponse(w)
      BY <2>1 DEF PrefetchDownload, PrefetchResponse, IndexInv, index, disk
    <2>2. CASE \/ PrefetchTake(w) \/ PrefetchDone(w) \/ PrefetchCheck(w)
               \/ PrefetchFill(w) \/ PrefetchTouch(w)
      BY <1>1, <2>2 DEF PrefetchTake, PrefetchDone, PrefetchCheck, PrefetchFill, PrefetchTouch,
                        index, disk
    <2> QED BY <1>6, <2>1, <2>2 DEF PrefetchStep
  <1>7. CASE Restarted
    BY <1>7 DEF Restarted, IndexInv, Entry, NoEntry, disk
  <1>8. CASE UNCHANGED vars
    BY <1>1, <1>8 DEF vars, index, disk
  <1> QED BY <1>2, <1>3, <1>4, <1>5, <1>6, <1>7, <1>8, CallStepIndex, EvictStepIndex, FlushIndex
          DEF Next, Rest, Crash, EvictDies, Flushing

-----------------------------------------------------------------------------
(* The evictors.                                                           *)

(* One evictor goes on.                                                    *)
LEMMA EvictorGoesOn ==
    ASSUME EvictorsInv, NEW e \in Evictors, NEW r, EvictInv(r), ev' = [ev EXCEPT ![e] = r]
    PROVE  EvictorsInv'
  <1>1. ev' = [d \in Evictors |-> ev'[d]] /\ \A d \in Evictors : EvictInv(ev'[d])
    BY DEF EvictorsInv
  <1> QED BY <1>1 DEF EvictorsInv, EvictInv

(* What an evictor goes on with, where it does, is an object.              *)
LEMMA FollowedPath ==
    ASSUME NEW a, NEW t \in Followed(a), ~t[3]
    PROVE  t[2] \in Paths
  <1> DEFINE E == {<<"entry", p, entries[p].evicted>> :
                     p \in {q \in Paths : entries[q].present /\ EntryAt[q] = a}}
             C == {"copy"} \X Paths \X BOOLEAN
             N == {<<"none", "none", TRUE>>}
  <1>1. t \in E \/ t \in C \/ t \in N
    BY Zenon DEF Followed
  <1>2. CASE t \in E
    BY <1>2
  <1>3. CASE t \in C
    BY <1>3
  <1>4. CASE t \in N
    <2>1. t = <<"none", "none", TRUE>>
      BY <1>4
    <2>2. t[3] = TRUE
      BY <2>1
    <2> QED BY <2>2, Zenon
  <1> QED BY <1>1, <1>2, <1>3, <1>4

(* An evictor moves to another point of its loop.                          *)
LEMMA EvictorMoves ==
    ASSUME NEW r, EvictInv(r), r # Idle, NEW pc \in {"check", "pop", "delete", "flush", "mark"},
           NEW ref, NEW p
    PROVE  /\ pc \in {"check", "pop"} \/ r.pc \in {"delete", "flush", "mark"} =>
                EvictInv([r EXCEPT !.pc = pc])
           /\ pc \in {"check", "pop"} \/ p \in Paths =>
                EvictInv([r EXCEPT !.pc = pc, !.ref = ref, !.p = p])
  <1>1. DOMAIN r = {"pc", "limit", "ref", "p"} /\ (r.pc \in {"delete", "flush", "mark"} => r.p \in Paths)
    BY DEF EvictInv
  <1> DEFINE a == [r EXCEPT !.pc = pc]
             b == [r EXCEPT !.pc = pc, !.ref = ref, !.p = p]
  <1>2. DOMAIN a = DOMAIN r /\ a.pc = pc /\ a.p = r.p
    BY <1>1
  <1>3. DOMAIN b = DOMAIN r /\ b.pc = pc /\ b.p = p
    BY <1>1
  <1> HIDE DEF a, b
  <1>4. /\ pc \in {"check", "pop"} \/ r.pc \in {"delete", "flush", "mark"} => EvictInv(a)
        /\ pc \in {"check", "pop"} \/ p \in Paths => EvictInv(b)
    BY <1>1, <1>2, <1>3 DEF EvictInv
  <1> QED BY <1>4 DEF a, b

(* Every step keeps the evictors well formed.                              *)
LEMMA NextEvictors ==
    ASSUME EvictorsInv, [Next]_vars
    PROVE  EvictorsInv'
  <1>1. CASE UNCHANGED ev
    BY <1>1 DEF EvictorsInv, EvictInv
  <1>2. ASSUME NEW e \in Evictors, NEW n \in Limits, EvictBegin(e, n)
        PROVE  EvictorsInv'
    <2> DEFINE r == [pc |-> "check", limit |-> n, ref |-> "none", p |-> "none"]
    <2>1. ev' = [ev EXCEPT ![e] = r]
      BY <1>2 DEF EvictBegin
    <2>2. EvictInv(r)
      BY DEF EvictInv
    <2> QED BY <2>1, <2>2, EvictorGoesOn
  <1>3. ASSUME NEW e \in Evictors, EvictStep(e)
        PROVE  EvictorsInv'
    <2>1. ev[e].pc # "idle"
      BY <1>3 DEF EvictStep, EvictCheck, EvictPop, EvictDelete, EvictFlush, EvictMark
    <2>2. EvictInv(ev[e]) /\ ev[e] # Idle /\ EvictInv(Idle)
      BY <2>1 DEF EvictorsInv, Idle, EvictInv
    <2>3. ASSUME NEW r, ev' = [ev EXCEPT ![e] = r], EvictInv(r) PROVE EvictorsInv'
      BY <2>3, EvictorGoesOn
    <2>4. CASE EvictCheck(e)
      BY <2>2, <2>3, <2>4, EvictorMoves DEF EvictCheck
    <2>5. CASE EvictPop(e)
      <3>1. CASE lru.order = <<>>
        BY <2>2, <2>3, <2>5, <3>1 DEF EvictPop
      <3>2. CASE lru.order # <<>>
        <4>1. PICK t \in Followed(Victim(lru)[1]) :
                ev' = [ev EXCEPT ![e] =
                         IF t[3] THEN [@ EXCEPT !.pc = "check"]
                         ELSE [@ EXCEPT !.pc = "delete", !.ref = t[1], !.p = t[2]]]
          BY <2>5, <3>2 DEF EvictPop
        <4>2. CASE t[3]
          <5>1. ev' = [ev EXCEPT ![e] = [ev[e] EXCEPT !.pc = "check"]]
            BY <4>1, <4>2
          <5>2. EvictInv([ev[e] EXCEPT !.pc = "check"])
            BY <2>2, EvictorMoves
          <5> QED BY <2>3, <5>1, <5>2
        <4>3. CASE ~t[3]
          <5> DEFINE r == [ev[e] EXCEPT !.pc = "delete", !.ref = t[1], !.p = t[2]]
          <5>0. t[2] \in Paths
            BY <4>3, FollowedPath
          <5>1. ev' = [ev EXCEPT ![e] = r]
            BY <4>1, <4>3
          <5>2. EvictInv(r)
            BY <2>2, <5>0, EvictorMoves
          <5> QED BY <2>3, <5>1, <5>2
        <4> QED BY <4>2, <4>3
      <3> QED BY <3>1, <3>2
    <2>6. CASE EvictDelete(e) \/ EvictFlush(e)
      <3>1. PICK pc \in {"flush", "mark"} :
              ev[e].pc \in {"delete", "flush"} /\ ev' = [ev EXCEPT ![e].pc = pc]
        BY <2>6 DEF EvictDelete, EvictFlush
      <3>2. EvictInv([ev[e] EXCEPT !.pc = pc])
        BY <2>2, <3>1, EvictorMoves
      <3> QED BY <2>3, <3>1, <3>2
    <2>7. CASE EvictMark(e)
      <3> DEFINE r == [ev[e] EXCEPT !.pc = "check", !.ref = "none", !.p = "none"]
      <3>1. ev' = [ev EXCEPT ![e] = r]
        BY <2>7 DEF EvictMark
      <3>2. EvictInv(r)
        BY <2>2, EvictorMoves
      <3> QED BY <2>3, <3>1, <3>2
    <2> QED BY <1>3, <2>4, <2>5, <2>6, <2>7 DEF EvictStep
  <1>4. ASSUME NEW op \in {"read", "write"}, NEW p \in Paths, NEW r \in Ranges,
               Begin(op, p, r[1], r[2])
        PROVE  UNCHANGED ev
    BY <1>4 DEF Begin
  <1>5. CASE CallStep
    BY <1>1, <1>5 DEF CallStep, Finish, ReadStore, ReadDownload, ReadResponse, ReadFill, ReadCopy,
                      WriteLoad, WriteStore, WriteMark, WriteTrack
  <1>6. CASE FlushAll \/ Cleanup \/ Rest \/ UNCHANGED vars
    BY <1>1, <1>6 DEF FlushAll, Cleanup, Rest, vars
  <1>7. ASSUME NEW w \in Workers, PrefetchStep(w)
        PROVE  UNCHANGED ev
    BY <1>7 DEF PrefetchStep, PrefetchTake, PrefetchDone, PrefetchCheck, PrefetchDownload,
                PrefetchResponse, PrefetchFill, PrefetchTouch
  <1>8. CASE Restarted
    BY <1>8 DEF Restarted, EvictorsInv, EvictInv
  <1>9. CASE Flushing
    BY <1>1, <1>9, FlushKeeps
  <1> QED BY <1>1, <1>2, <1>3, <1>4, <1>5, <1>6, <1>7, <1>8, <1>9
          DEF Next, Crash, EvictDies, Flushing

-----------------------------------------------------------------------------
(* The flushes.                                                            *)

(* One flush begins, goes on or ends.                                      *)
LEMMA FlushGoesOn ==
    ASSUME FlushesInv, NEW f \in Evictors \cup {Caller}, NEW r, FlushInv(r),
           fl' = [fl EXCEPT ![f] = r]
    PROVE  FlushesInv'
  <1>1. /\ fl' = [g \in Evictors \cup {Caller} |-> fl'[g]]
        /\ \A g \in Evictors \cup {Caller} : FlushInv(fl'[g])
    BY DEF FlushesInv
  <1> QED BY <1>1 DEF FlushesInv, FlushInv, Flush

(* A flush of an object begins well formed.                                *)
LEMMA FlushBegins ==
    ASSUME NEW p \in Paths, NEW rest \in SUBSET Paths
    PROVE  FlushInv(flushBitmaps(p, rest))
  <1> DEFINE todo == {k \in Parts : BitsOf(p, k) # {}}
  <1>1. todo \in SUBSET Parts
    OBVIOUS
  <1> HIDE DEF todo
  <1>2. flushBitmaps(p, rest) = [st |-> "open", p |-> p, todo |-> todo, k |-> 0, bits |-> {},
                                 rest |-> rest]
    BY DEF flushBitmaps, todo
  <1>3. flushBitmaps(p, rest) \in Flush /\ flushBitmaps(p, rest).p \in Paths
    BY <1>1, <1>2 DEF Flush
  <1> QED BY <1>3 DEF FlushInv

(* So does flush_all.                                                      *)
LEMMA FlushAllBegins == FlushInv(flush_all)
  <1> DEFINE rest == {p \in Paths : entries[p].present}
  <1>1. rest \in SUBSET Paths
    OBVIOUS
  <1> HIDE DEF rest
  <1>2. flush_all = [st |-> "open", p |-> "none", todo |-> {}, k |-> 0, bits |-> {}, rest |-> rest]
    BY DEF flush_all, rest
  <1>3. flush_all \in Flush /\ flush_all.st = "open" /\ flush_all.todo = {}
    BY <1>1, <1>2 DEF Flush
  <1> QED BY <1>3 DEF FlushInv

(* What a step of a flush leaves: the record before and after.             *)
LEMMA FlushStepFlushes ==
    ASSUME IndexInv, FlushesInv, NEW f \in Evictors \cup {Caller}, FlushStep(f)
    PROVE  FlushesInv'
  <1> DEFINE r == fl[f]
  <1>1. CASE PersistWrite(f)
    <2> DEFINE new == [r EXCEPT !.st = "open", !.k = 0, !.bits = {}]
    <2>1. r \in Flush /\ r.p \in Paths /\ fl' = [fl EXCEPT ![f] = new]
      BY <1>1 DEF PersistWrite, FlushesInv, FlushInv, NoFlush
    <2> HIDE DEF r
    <2>2. new \in Flush /\ new.p = r.p
      BY <2>1 DEF Flush
    <2> HIDE DEF new
    <2>3. FlushInv(new)
      BY <2>1, <2>2 DEF FlushInv
    <2> QED BY <2>1, <2>3, FlushGoesOn
  <1>2. ASSUME NEW k \in Parts, PersistOpen(f, k)
        PROVE  FlushesInv'
    <2> DEFINE less == r.todo \ {k}
               bits == BitsOf(r.p, k)
               a == [r EXCEPT !.todo = less]
               b == [a EXCEPT !.st = "write", !.k = k, !.bits = bits]
    <2>0. r.st = "open" /\ k \in r.todo
      BY <1>2 DEF PersistOpen
    <2>a. r \in Flush /\ r.p \in Paths
      BY <2>0 DEF FlushesInv, FlushInv, NoFlush
    <2>b. fl' = [fl EXCEPT ![f] = a] \/ fl' = [fl EXCEPT ![f] = b]
      BY <1>2, Zenon DEF PersistOpen
    <2>1. /\ r \in Flush /\ r.p \in Paths
          /\ fl' = [fl EXCEPT ![f] = a] \/ fl' = [fl EXCEPT ![f] = b]
      BY <2>a, <2>b
    <2>2. less \in SUBSET Parts /\ bits \in SUBSET (Parts \X Nat)
      BY <2>1 DEF Flush, BitsOf, IndexInv
    <2>3. k \in Nat
      BY LayoutAssumption DEF Parts
    <2> HIDE DEF r, less, bits
    <2>4. a \in Flush /\ a.p = r.p
      BY <2>1, <2>2 DEF Flush
    <2> HIDE DEF a
    <2>5. b \in Flush /\ b.p = r.p
      BY <2>2, <2>3, <2>4 DEF Flush
    <2> HIDE DEF b
    <2>6. FlushInv(a) /\ FlushInv(b)
      BY <2>1, <2>4, <2>5 DEF FlushInv
    <2> QED BY <2>1, <2>6, FlushGoesOn
  <1> QED BY <1>1, <1>2 DEF FlushStep

(* Deleting an object's files leaves the flushes well formed.              *)
LEMMA EvictDeleteFlushes ==
    ASSUME FlushesInv, NEW e \in Evictors, EvictDelete(e)
    PROVE  FlushesInv'
  <1> DEFINE gone(r) == [r EXCEPT !.st = "orphan"]
  <1>1. /\ fl = [f \in Evictors \cup {Caller} |-> fl[f]]
        /\ \A f \in Evictors \cup {Caller} : FlushInv(fl[f])
    BY DEF FlushesInv
  <1>2. DOMAIN fl = Evictors \cup {Caller}
    BY <1>1
  <1>3. fl' = [f \in Evictors \cup {Caller} |->
                 IF fl[f].st = "write" /\ fl[f].p = ev[e].p THEN gone(fl[f]) ELSE fl[f]]
    BY <1>2 DEF EvictDelete
  <1>4. ASSUME NEW f \in Evictors \cup {Caller}
        PROVE  FlushInv(fl'[f])
    <2>1. CASE fl[f].st = "write" /\ fl[f].p = ev[e].p
      <3>1. fl[f] \in Flush /\ fl[f].p \in Paths
        BY <1>1, <2>1 DEF FlushInv, NoFlush
      <3>2. gone(fl[f]) \in Flush /\ gone(fl[f]).p = fl[f].p
        BY <3>1 DEF Flush
      <3>3. fl'[f] = gone(fl[f])
        BY <1>3, <2>1
      <3> HIDE DEF gone
      <3> QED BY <3>1, <3>2, <3>3 DEF FlushInv
    <2>2. CASE ~(fl[f].st = "write" /\ fl[f].p = ev[e].p)
      BY <1>1, <1>3, <2>2
    <2> QED BY <2>1, <2>2
  <1>5. fl' = [f \in Evictors \cup {Caller} |-> fl'[f]]
    BY <1>3
  <1> QED BY <1>4, <1>5 DEF FlushesInv, FlushInv, Flush

(* Every step keeps the flushes well formed.                               *)
LEMMA NextFlushes ==
    ASSUME IndexInv, EvictorsInv, FlushesInv, [Next]_vars
    PROVE  FlushesInv'
  <1>1. CASE UNCHANGED fl
    BY <1>1 DEF FlushesInv, FlushInv, Flush
  <1>2. FlushInv(NoFlush)
    BY DEF FlushInv
  <1>3. ASSUME NEW op \in {"read", "write"}, NEW p \in Paths, NEW r \in Ranges,
               Begin(op, p, r[1], r[2])
        PROVE  FlushesInv'
    BY <1>1, <1>3 DEF Begin
  <1>4. CASE CallStep
    BY <1>1, <1>4 DEF CallStep, Finish, ReadStore, ReadDownload, ReadResponse, ReadFill, ReadCopy,
                      WriteLoad, WriteStore, WriteMark, WriteTrack
  <1>5. CASE FlushAll \/ Cleanup
    <2>1. fl' = [fl EXCEPT ![Caller] = flush_all]
      BY <1>5 DEF FlushAll, Cleanup
    <2> QED BY <2>1, FlushAllBegins, FlushGoesOn
  <1>6. CASE FlushReturn
    BY <1>2, <1>6, FlushGoesOn DEF FlushReturn
  <1>7. ASSUME NEW p \in Paths, FlushNext(p)
        PROVE  FlushesInv'
    <2>1. /\ fl' = [fl EXCEPT ![Caller] = flushBitmaps(p, fl[Caller].rest \ {p})]
          /\ fl[Caller].st = "open"
      BY <1>7 DEF FlushNext
    <2>2. fl[Caller].rest \ {p} \in SUBSET Paths
      BY <2>1 DEF FlushesInv, FlushInv, NoFlush, Flush
    <2> QED BY <2>1, <2>2, FlushBegins, FlushGoesOn
  <1>8. ASSUME NEW e \in Evictors, NEW n \in Limits, EvictBegin(e, n)
        PROVE  FlushesInv'
    BY <1>1, <1>8 DEF EvictBegin
  <1>9. ASSUME NEW e \in Evictors, EvictStep(e)
        PROVE  FlushesInv'
    <2>1. CASE EvictCheck(e) \/ EvictPop(e)
      BY <1>1, <2>1 DEF EvictCheck, EvictPop
    <2>2. CASE EvictFlush(e)
      <3>1. fl' = [fl EXCEPT ![e] = flushBitmaps(ev[e].p, {})] /\ ev[e].pc = "flush"
        BY <2>2 DEF EvictFlush
      <3>2. ev[e].p \in Paths
        BY <3>1 DEF EvictorsInv, EvictInv, Idle
      <3>3. FlushInv(flushBitmaps(ev[e].p, {}))
        BY <3>2, FlushBegins
      <3> QED BY <3>1, <3>3, FlushGoesOn
    <2>3. CASE EvictMark(e)
      BY <1>2, <2>3, FlushGoesOn DEF EvictMark
    <2> QED BY <1>9, <2>1, <2>2, <2>3, EvictDeleteFlushes DEF EvictStep
  <1>10. ASSUME NEW w \in Workers, PrefetchStep(w)
         PROVE  FlushesInv'
    BY <1>1, <1>10 DEF PrefetchStep, PrefetchTake, PrefetchDone, PrefetchCheck, PrefetchDownload,
                       PrefetchResponse, PrefetchFill, PrefetchTouch
  <1>11. CASE Restarted
    BY <1>2, <1>11 DEF Restarted, FlushesInv, FlushInv
  <1>12. CASE Rest \/ UNCHANGED vars
    BY <1>1, <1>12 DEF Rest, vars
  <1> QED BY <1>3, <1>4, <1>5, <1>6, <1>7, <1>8, <1>9, <1>10, <1>11, <1>12, FlushStepFlushes
          DEF Next, Crash, EvictDies, FlushLoop

-----------------------------------------------------------------------------
(* Sizes.                                                                  *)

(* A multiple of the block size that is smaller than another one is smaller*)
(* by a block at least.                                                    *)
LEMMA MultipleGap ==
    ASSUME NEW a \in Int, NEW b \in Int, NEW s \in Nat, s > 0, a * s < b * s
    PROVE  a * s + s <= b * s
  <1>1. a < b
    <2>1. SUFFICES ASSUME b <= a PROVE FALSE
      OBVIOUS
    <2>2. PICK d \in Nat : a = b + d
      <3> DEFINE d == a - b
      <3>1. d \in Nat /\ a = b + d
        BY <2>1
      <3> QED BY <3>1
    <2>3. a * s = b * s + d * s /\ d * s \in Nat
      BY <2>2
    <2>4. b * s \in Int
      OBVIOUS
    <2> QED BY <2>3, <2>4
  <1>2. PICK d \in Nat : b = a + 1 + d
    <2> DEFINE d == b - a - 1
    <2>1. d \in Nat /\ b = a + 1 + d
      BY <1>1
    <2> QED BY <2>1
  <1>3. b * s = a * s + s + d * s /\ d * s \in Nat /\ a * s \in Int
    BY <1>2
  <1> QED BY <1>3

(* A block does not cross the end of its part.                             *)
LEMMA BlockFits ==
    ASSUME NEW blk \in Nat
    PROVE  InPart(Offset(blk)) + kBlockSize <= kMaxPartSize
  <1> DEFINE s == kBlockSize
             m == kMaxPartSize
             q == kMaxPartSize \div kBlockSize
             off == Offset(blk)
             k == PartOf(off)
             i == InPart(off)
             j == blk - k * q
  <1>1. s \in Nat /\ s > 0 /\ m \in Nat /\ m > 0
    BY LayoutAssumption
  <1>2. q \in Nat /\ m = q * s
    BY LayoutAssumption
  <1>3. off \in Nat /\ off = blk * s
    BY OffsetNat DEF Offset
  <1>4. k \in Nat /\ i \in Nat /\ k * m + i = off
    BY <1>3, PartArithmetic
  <1>5. i < m
    BY <1>3, LayoutAssumption DEF InPart
  <1> HIDE DEF s, m, q, off, k, i
  <1>6. j \in Int
    BY <1>2, <1>4
  <1>7. j * s = i
    <2>1. k * m = (k * q) * s
      BY <1>1, <1>2, <1>4
    <2>2. j * s = blk * s - (k * q) * s
      BY <1>1, <1>2, <1>4
    <2> QED BY <1>1, <1>2, <1>3, <1>4, <2>1, <2>2
  <1> HIDE DEF j
  <1>8. j * s < q * s
    BY <1>2, <1>5, <1>7
  <1>9. j * s + s <= q * s
    BY <1>1, <1>2, <1>6, <1>8, MultipleGap
  <1>10. i + s <= m
    BY <1>2, <1>7, <1>9
  <1> QED BY <1>10 DEF i, s, m, off

(* What a download delivers: cells of the remote copy, at most a block.    *)
LEMMA DownloadAt ==
    ASSUME NEW p \in Paths, NEW blk \in Nat
    PROVE  /\ Len(download(p, blk)) \in Nat /\ Len(download(p, blk)) <= kBlockSize
           /\ \A i \in 1..Len(download(p, blk)) : download(p, blk)[i] = <<0, p, Offset(blk) + i - 1>>
  <1> DEFINE m == Clip(RemoteLen[p] - Offset(blk), kBlockSize)
             at(i) == <<0, p, Offset(blk) + i - 1>>
             r == [i \in 1..m |-> at(i)]
  <1>1. m \in Nat /\ m <= kBlockSize
    BY OffsetNat, RemoteAssumption, LayoutAssumption DEF Clip
  <1>2. download(p, blk) = r
    BY DEF download
  <1>3. Len(r) = m /\ \A i \in 1..m : r[i] = at(i)
    <2> HIDE DEF m, at
    <2> QED BY <1>1
  <1> HIDE DEF m, r
  <1> QED BY <1>1, <1>2, <1>3

(* Whatever a read fetched is at most a block.                             *)
LEMMA FetchedLen ==
    ASSUME DiskInv, NEW p \in Paths, NEW blk \in Nat, NEW ok \in BOOLEAN
    PROVE  Len(Fetched(p, blk, ok)) <= kBlockSize
  <1>1. local[p] \in Seq(Val) /\ Offset(blk) \in Nat /\ kBlockSize \in Nat
    BY OffsetNat, LayoutAssumption DEF DiskInv, LocalInv
  <1>2. Len(pread(local[p], kBlockSize, Offset(blk))) <= kBlockSize
    BY ONLY <1>1, PreadAt
  <1> QED BY <1>2, DownloadAt DEF Fetched

(* The merged block is a block.                                            *)
LEMMA MergedLen ==
    ASSUME NEW old
    PROVE  Len(Merged(old)) = kBlockSize
  <1> DEFINE at(i) == IF i > In /\ i <= In + Want THEN Chunk[i - In]
                      ELSE IF i <= Len(old) THEN old[i] ELSE Zero
  <1>1. Merged(old) = [i \in 1..kBlockSize |-> at(i)]
    BY DEF Merged
  <1> HIDE DEF at
  <1> QED BY <1>1, LayoutAssumption

(* A write of at most a block leaves no part too long.                     *)
LEMMA StoreWriteSizes ==
    ASSUME DiskInv, StoreSizes, NEW p \in Paths, NEW blk \in Nat, NEW data \in Seq(Val),
           Len(data) <= kBlockSize, StoreWrite(p, data, blk)
    PROVE  StoreSizes'
  <1>1. CASE UNCHANGED store
    BY <1>1 DEF StoreSizes
  <1>2. CASE store' = [store EXCEPT ![p] = write(@, data, Offset(blk))]
    <2> DEFINE k == PartOf(Offset(blk))
               i == InPart(Offset(blk))
               obj == store[p]
               f == pwrite(obj[k], data, i)
    <2>1. store' = [store EXCEPT ![p] = [obj EXCEPT ![k] = f]]
      BY <1>2 DEF write
    <2>2. i \in Nat /\ i + kBlockSize <= kMaxPartSize
      BY OffsetNat, PartArithmetic, BlockFits
    <2>3. store = [q \in Paths |-> store[q]] /\ \A q \in Paths : store[q] \in [Parts -> Seq(Val)]
      BY DEF DiskInv, StoreInv, ObjectInv
    <2>4. CASE k \in Parts
      <3>1. obj[k] \in Seq(Val) /\ Len(obj[k]) <= kMaxPartSize
        BY <2>3, <2>4 DEF StoreSizes
      <3> HIDE DEF obj, k, i
      <3>2. Len(f) = Len(obj[k]) \/ Len(f) = i + Len(data)
        BY <2>2, <3>1, PwriteAt
      <3>3. Len(f) <= kMaxPartSize
        BY <2>2, <3>1, <3>2, LayoutAssumption
      <3> HIDE DEF f
      <3>4. \A q \in Paths, l \in Parts : Len(store'[q][l]) <= kMaxPartSize
        BY <2>1, <2>3, <3>3 DEF StoreSizes, obj
      <3> QED BY <3>4 DEF StoreSizes
    <2>5. CASE k \notin Parts
      <3> HIDE DEF k, f
      <3>1. \A q \in Paths, l \in Parts : store'[q][l] = store[q][l]
        BY <2>1, <2>3, <2>5
      <3> QED BY <3>1 DEF StoreSizes
    <2> QED BY <2>4, <2>5
  <1> QED BY <1>1, <1>2 DEF StoreWrite

(* No step of a call makes a part or a buffer too long.                    *)
LEMMA CallStepSizes ==
    ASSUME DiskInv, SizeInv, CallStep
    PROVE  SizeInv'
  <1>1. UNCHANGED wk /\ frame.pc # "idle"
    BY DEF CallStep, Finish, ReadStore, ReadDownload, ReadResponse, ReadFill, ReadCopy,
           WriteLoad, WriteStore, WriteMark, WriteTrack
  <1>2. JobSizes'
    BY <1>1 DEF SizeInv, JobSizes
  <1>3. frame \in Frame /\ <<frame.off, frame.len>> \in Ranges /\ frame.p \in Paths
        /\ frame.block \in Seq(Val)
    BY <1>1, InCall
  <1>4. ASSUME UNCHANGED store PROVE StoreSizes'
    BY <1>4 DEF SizeInv, StoreSizes
  <1>5. CASE Finish
    BY <1>2, <1>4, <1>5 DEF Finish, Return, Idle, disk, SizeInv, FrameSize
  <1>6. CASE ReadStore \/ ReadDownload \/ ReadCopy \/ WriteMark \/ WriteTrack
    <2>1. frame'.pc \notin {"fill", "store"} /\ UNCHANGED store
      BY <1>3, <1>6 DEF ReadStore, ReadDownload, ReadCopy, WriteMark, WriteTrack, Frame, disk
    <2> QED BY <1>2, <1>4, <2>1 DEF SizeInv, FrameSize
  <1>7. CASE ReadResponse
    <2>1. UNCHANGED store
      BY <1>7 DEF ReadResponse, disk
    <2>2. PICK ok \in BOOLEAN :
            \/ frame' = [frame EXCEPT !.block = Fetched(frame.p, Blk, ok), !.pc = "fill"]
            \/ frame' = Idle
      BY <1>7 DEF ReadResponse, Return
    <2>3. frame.done < frame.len
      BY <1>7, InCall DEF ReadResponse
    <2>4. Len(Fetched(frame.p, Blk, ok)) <= kBlockSize
      BY <1>3, <2>3, HereFacts, FetchedLen
    <2>5. CASE frame' = [frame EXCEPT !.block = Fetched(frame.p, Blk, ok), !.pc = "fill"]
      <3>1. frame'.block = Fetched(frame.p, Blk, ok)
        BY <1>3, <2>5 DEF Frame
      <3> QED BY <1>2, <1>4, <2>1, <2>4, <3>1 DEF SizeInv, FrameSize
    <2>6. CASE frame' = Idle
      BY <1>2, <1>4, <2>1, <2>6 DEF Idle, SizeInv, FrameSize
    <2> QED BY <2>2, <2>5, <2>6
  <1>8. CASE WriteLoad
    <2> DEFINE new == Merged(readBlock(store[frame.p], Offset(Blk)))
    <2>1. frame' = [frame EXCEPT !.pc = "store", !.block = new] /\ UNCHANGED store
      BY <1>8 DEF WriteLoad, disk
    <2>2. Len(new) <= kBlockSize
      BY MergedLen, LayoutAssumption
    <2> HIDE DEF new
    <2>3. frame'.block = new
      BY <1>3, <2>1 DEF Frame
    <2> QED BY <1>2, <1>4, <2>1, <2>2, <2>3 DEF SizeInv, FrameSize
  <1>9. CASE ReadFill \/ WriteStore
    <2>1. /\ frame.pc \in {"fill", "store"} /\ StoreWrite(frame.p, frame.block, Blk)
          /\ frame' = [frame EXCEPT !.pc = "copy"] \/ frame' = [frame EXCEPT !.pc = "mark"]
      BY <1>9 DEF ReadFill, WriteStore
    <2>2. Blk \in Nat
      BY <1>3, <2>1, InCall, HereFacts
    <2>3. StoreSizes'
      BY <1>3, <2>1, <2>2, StoreWriteSizes DEF SizeInv, FrameSize
    <2>4. frame'.pc \notin {"fill", "store"}
      BY <1>3, <2>1 DEF Frame
    <2> QED BY <1>2, <2>3, <2>4 DEF SizeInv, FrameSize
  <1> QED BY <1>5, <1>6, <1>7, <1>8, <1>9 DEF CallStep

(* Nor does a prefetch worker.                                             *)
LEMMA PrefetchStepSizes ==
    ASSUME DiskInv, SizeInv, NEW w \in Workers, PrefetchStep(w)
    PROVE  SizeInv'
  <1>0. wk = [v \in Workers |-> wk[v]] /\ UNCHANGED frame
    BY DEF DiskInv, WorkersInv, PrefetchStep, PrefetchTake, PrefetchDone, PrefetchCheck,
           PrefetchDownload, PrefetchResponse, PrefetchFill, PrefetchTouch
  <1>1. FrameSize'
    BY <1>0 DEF SizeInv, FrameSize
  <1>2. ASSUME UNCHANGED store PROVE StoreSizes'
    BY <1>2 DEF SizeInv, StoreSizes
  <1>3. ASSUME NEW j, wk' = [wk EXCEPT ![w] = j], j.pc = "fill" => Len(j.buf) <= kBlockSize
        PROVE  JobSizes'
    BY <1>0, <1>3 DEF SizeInv, JobSizes
  <1>4. ASSUME Advance(w), wk[w] \in Job PROVE JobSizes'
    <2> DEFINE j == [wk[w] EXCEPT !.pc = "check", !.blk = wk[w].blk + 1,
                                  !.left = wk[w].left - 1, !.buf = <<>>]
    <2>1. wk' = [wk EXCEPT ![w] = j] /\ j.pc = "check"
      BY <1>4 DEF Advance, Job
    <2> HIDE DEF j
    <2> QED BY <1>3, <2>1
  <1>5. ASSUME NEW pc, pc # "fill", wk' = [wk EXCEPT ![w].pc = pc], wk[w] \in Job PROVE JobSizes'
    <2> DEFINE j == [wk[w] EXCEPT !.pc = pc]
    <2>1. wk' = [wk EXCEPT ![w] = j] /\ j.pc = pc
      BY <1>5 DEF Job
    <2> HIDE DEF j
    <2> QED BY <1>3, <1>5, <2>1
  <1>6. CASE PrefetchTake(w)
    <2> DEFINE job(a) == [pc |-> "check", p |-> Head(tasks).p, blk |-> Head(tasks).blk,
                          left |-> PREFETCH_WINDOW, buf |-> <<>>, at |-> a]
    <2>0. PICK a \in CopyAt : wk' = [wk EXCEPT ![w] = job(a)]
      BY <1>6 DEF PrefetchTake
    <2> DEFINE j == job(a)
    <2>1. wk' = [wk EXCEPT ![w] = j] /\ j.pc = "check" /\ UNCHANGED store
      BY <1>6, <2>0 DEF PrefetchTake, disk
    <2> HIDE DEF j
    <2> QED BY <1>1, <1>2, <1>3, <2>1 DEF SizeInv
  <1>7. CASE PrefetchDone(w)
    <2>1. wk' = [wk EXCEPT ![w] = Idle] /\ Idle.pc = "idle" /\ UNCHANGED store
      BY <1>7 DEF PrefetchDone, disk, Idle
    <2> QED BY <1>1, <1>2, <1>3, <2>1 DEF SizeInv
  <1>8. CASE PrefetchCheck(w) \/ PrefetchDownload(w) \/ PrefetchTouch(w)
    <2>1. wk[w] \in Job /\ UNCHANGED store
      BY <1>8, InJob DEF PrefetchCheck, PrefetchDownload, PrefetchTouch, disk
    <2>2. JobSizes'
      BY <1>4, <1>5, <1>8, <2>1 DEF PrefetchCheck, PrefetchDownload, PrefetchTouch
    <2> QED BY <1>1, <1>2, <2>1, <2>2 DEF SizeInv
  <1>9. CASE PrefetchResponse(w)
    <2> DEFINE got == download(wk[w].p, wk[w].blk)
               j == [wk[w] EXCEPT !.pc = "fill", !.buf = got]
    <2>1. /\ wk[w] \in Job /\ wk[w].p \in Paths /\ wk[w].blk \in Nat /\ UNCHANGED store
          /\ Advance(w) \/ wk' = [wk EXCEPT ![w] = j]
      BY <1>9, InJob DEF PrefetchResponse, disk
    <2>2. Len(got) <= kBlockSize
      BY <2>1, DownloadAt
    <2> HIDE DEF got
    <2>3. j.buf = got
      BY <2>1 DEF Job
    <2> HIDE DEF j
    <2>4. JobSizes'
      BY <1>3, <1>4, <2>1, <2>2, <2>3
    <2> QED BY <1>1, <1>2, <2>1, <2>4 DEF SizeInv
  <1>10. CASE PrefetchFill(w)
    <2>1. /\ wk[w] \in Job /\ wk[w].p \in Paths /\ wk[w].blk \in Nat /\ wk[w].buf \in Seq(Val)
          /\ wk[w].pc = "fill" /\ StoreWrite(wk[w].p, wk[w].buf, wk[w].blk)
          /\ wk' = [wk EXCEPT ![w].pc = "touch"]
      BY <1>10, InJob DEF PrefetchFill
    <2>2. StoreSizes'
      BY <2>1, StoreWriteSizes DEF SizeInv, JobSizes
    <2>3. JobSizes'
      BY <1>5, <2>1
    <2> QED BY <1>1, <2>2, <2>3 DEF SizeInv
  <1> QED BY <1>6, <1>7, <1>8, <1>9, <1>10 DEF PrefetchStep

(* Nor does any step.                                                      *)
LEMMA NextSizes ==
    ASSUME DiskInv, SizeInv, [Next]_vars
    PROVE  SizeInv'
  <1>1. CASE UNCHANGED <<store, frame, wk>>
    BY <1>1 DEF SizeInv, StoreSizes, FrameSize, JobSizes
  <1>2. ASSUME NEW op \in {"read", "write"}, NEW p \in Paths, NEW r \in Ranges,
               Begin(op, p, r[1], r[2])
        PROVE  SizeInv'
    <2>1. frame'.pc \notin {"fill", "store"} /\ UNCHANGED <<store, wk>>
      BY <1>2 DEF Begin, Idle, disk
    <2> QED BY <2>1 DEF SizeInv, StoreSizes, FrameSize, JobSizes
  <1>3. CASE FlushAll \/ Cleanup \/ Rest \/ UNCHANGED vars
    BY <1>1, <1>3 DEF FlushAll, Cleanup, Rest, vars, disk
  <1>4. ASSUME NEW e \in Evictors, NEW n \in Limits, EvictBegin(e, n)
        PROVE  SizeInv'
    BY <1>1, <1>4 DEF EvictBegin, disk
  <1>5. ASSUME NEW e \in Evictors, EvictStep(e)
        PROVE  SizeInv'
    <2>1. CASE EvictCheck(e) \/ EvictPop(e) \/ EvictFlush(e) \/ EvictMark(e)
      BY <1>1, <2>1 DEF EvictCheck, EvictPop, EvictFlush, EvictMark, disk
    <2>2. CASE EvictDelete(e)
      <3>1. store' = [store EXCEPT ![ev[e].p] = NoObject] /\ UNCHANGED <<frame, wk>>
        BY <2>2 DEF EvictDelete
      <3>2. \A k \in Parts : Len(NoObject[k]) <= kMaxPartSize
        BY LayoutAssumption DEF NoObject
      <3>3. store = [q \in Paths |-> store[q]]
        BY DEF DiskInv, StoreInv
      <3>4. \A q \in Paths : store'[q] = store[q] \/ store'[q] = NoObject
        BY <3>1, <3>3
      <3>5. StoreSizes'
        BY <3>2, <3>4 DEF SizeInv, StoreSizes
      <3> QED BY <3>1, <3>5 DEF SizeInv, FrameSize, JobSizes
    <2> QED BY <1>5, <2>1, <2>2 DEF EvictStep
  <1>6. CASE Restarted
    BY <1>6 DEF Restarted, Idle, SizeInv, StoreSizes, FrameSize, JobSizes, disk
  <1>7. CASE Flushing
    BY <1>1, <1>7, FlushKeeps
  <1> QED BY <1>2, <1>3, <1>4, <1>5, <1>6, <1>7, CallStepSizes, PrefetchStepSizes
          DEF Next, Crash, EvictDies, Flushing

(* The types hold initially.                                               *)
LEMMA InitTypes == Init => TypeAll
  <1> SUFFICES ASSUME Init PROVE TypeAll
    OBVIOUS
  <1>1. IndexInv
    BY DEF Init, IndexInv, Entry, NoEntry
  <1>2. EvictorsInv
    BY DEF Init, EvictorsInv, EvictInv
  <1>3. StoreSizes
    BY LayoutAssumption DEF Init, StoreSizes, NoObject
  <1>4. FrameSize /\ JobSizes
    BY DEF Init, FrameSize, JobSizes, Idle
  <1>5. FlushesInv
    BY DEF Init, FlushesInv, FlushInv
  <1> QED BY <1>1, <1>2, <1>3, <1>4, <1>5, InitDisk DEF TypeAll, SizeInv

(* Every step keeps them.                                                  *)
LEMMA NextTypes == TypeAll /\ [Next]_vars => TypeAll'
  BY NextDisk, NextIndex, NextEvictors, NextFlushes, NextSizes DEF TypeAll

(* They are what TypeOK asks for.                                          *)
LEMMA TypesAreOK == TypeAll => TypeOK
  <1> SUFFICES ASSUME TypeAll PROVE TypeOK
    OBVIOUS
  <1>1. \A p \in Paths : /\ entries[p].present \in BOOLEAN /\ entries[p].evicted \in BOOLEAN
                         /\ entries[p].last \in Nat \cup {NoBlock}
                         /\ bitmap[p] \subseteq Parts \X Nat /\ dmap[p] \subseteq Parts \X Nat
    BY DEF TypeAll, IndexInv, Entry
  <1>2. \A p \in Paths : \A k \in Parts : Len(store[p][k]) <= kMaxPartSize
    BY DEF TypeAll, SizeInv, StoreSizes
  <1>3. frame.pc \in {"idle"} \cup CallPC
    BY DEF TypeAll, DiskInv, CallInv, Idle, Frame
  <1>4. \A w \in Workers : wk[w].pc \in {"idle"} \cup JobPC
    BY DEF TypeAll, DiskInv, WorkersInv, JobInv, Idle, Job
  <1>5. \A e \in Evictors : ev[e].pc \in {"idle", "check", "pop", "delete", "flush", "mark"}
    BY DEF TypeAll, EvictorsInv, EvictInv, Idle
  <1>6. \A f \in Evictors \cup {Caller} : fl[f].st \in {"none", "open", "write", "orphan"}
    BY DEF TypeAll, FlushesInv, FlushInv, NoFlush, Flush
  <1> QED BY <1>1, <1>2, <1>3, <1>4, <1>5, <1>6
          DEF TypeOK, TypeAll, IndexInv, DiskInv, CallPC, JobPC

(* The index, the disk and the threads stay well formed, and no part grows *)
(* beyond kMaxPartSize (block_store.cc:62-63).                             *)
THEOREM CacheTypeCorrect == Spec => []TypeOK
  <1>1. Init => TypeAll
    BY InitTypes
  <1>2. TypeAll /\ [Next]_vars => TypeAll'
    BY NextTypes
  <1>3. TypeAll => TypeOK
    BY TypesAreOK
  <1> QED BY <1>1, <1>2, <1>3, PTL DEF Spec
=============================================================================
