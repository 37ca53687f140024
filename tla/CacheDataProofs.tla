--------------------------- MODULE CacheDataProofs ---------------------------
(***************************************************************************)
(* What is proved of the data that CacheManager keeps: the plain copy has  *)
(* every write, the bitmap files name every dirty block, and a read that   *)
(* is not overtaken by a prefetch returns the last write.                  *)
(***************************************************************************)
EXTENDS CacheManagerProofs

-----------------------------------------------------------------------------
(* Which steps change what.                                                *)

(* The counters of failures and crashes are natural numbers.               *)
CountsInv == faults \in [{"net", "disk"} -> Nat] /\ crashes \in Nat

(* A step in which no file write fails leaves the count alone.             *)
NoDiskFault == faults["disk"] = 0 /\ crashes = 0

(* Counting a failure.                                                     *)
LEMMA FaultCounts ==
    ASSUME CountsInv, NEW kind \in {"net", "disk"}, Fault(kind)
    PROVE  /\ faults' \in [{"net", "disk"} -> Nat]
           /\ faults'["disk"] = 0 => faults["disk"] = 0 /\ kind = "net"
  BY DEF CountsInv, Fault

(* Failures and crashes are only counted up.                               *)
LEMMA NextCounts ==
    ASSUME CountsInv, [Next]_vars
    PROVE  /\ CountsInv' /\ (NoDiskFault' => NoDiskFault)
           /\ faults'["disk"] = 0 => faults["disk"] = 0
  <1>1. CASE Restarted
    BY <1>1 DEF Restarted, CountsInv, NoDiskFault
  <1>2. CASE UNCHANGED <<faults, crashes>>
    BY <1>2 DEF CountsInv, NoDiskFault
  <1>3. CASE (\E kind \in {"net", "disk"} : Fault(kind)) /\ UNCHANGED crashes
    <2>1. PICK kind \in {"net", "disk"} : Fault(kind)
      BY <1>3
    <2> QED BY <1>3, <2>1, FaultCounts DEF CountsInv, NoDiskFault
  <1>4. ASSUME NEW p, NEW data, NEW blk, StoreWrite(p, data, blk)
        PROVE  UNCHANGED faults \/ \E kind \in {"net", "disk"} : Fault(kind)
    BY <1>4 DEF StoreWrite, Fine
  <1>5. ASSUME NEW op \in {"read", "write"}, NEW p \in Paths, NEW r \in Ranges,
               Begin(op, p, r[1], r[2])
        PROVE  UNCHANGED <<faults, crashes>>
    BY <1>5 DEF Begin
  <1>6. CASE CallStep
    <2>1. CASE Finish \/ ReadStore \/ ReadDownload \/ ReadCopy \/ WriteLoad \/ WriteMark
      BY <1>2, <2>1 DEF Finish, ReadStore, ReadDownload, ReadCopy, WriteLoad, WriteMark, counts
    <2>2. CASE ReadResponse
      BY <1>2, <1>3, <2>2 DEF ReadResponse, Fine
    <2>3. CASE ReadFill \/ WriteStore
      BY <1>2, <1>3, <1>4, <2>3 DEF ReadFill, WriteStore
    <2>4. CASE WriteTrack
      BY <1>2, <1>3, <2>4 DEF WriteTrack, Fine
    <2> QED BY <1>6, <2>1, <2>2, <2>3, <2>4 DEF CallStep
  <1>7. CASE FlushAll \/ Cleanup \/ Rest \/ UNCHANGED vars
    BY <1>2, <1>7 DEF FlushAll, Cleanup, Rest, vars, counts
  <1>8. ASSUME NEW e \in Evictors, NEW n \in Limits, EvictBegin(e, n)
        PROVE  UNCHANGED <<faults, crashes>>
    BY <1>8 DEF EvictBegin
  <1>9. ASSUME NEW e \in Evictors, EvictStep(e)
        PROVE  UNCHANGED <<faults, crashes>>
    BY <1>9 DEF EvictStep, EvictCheck, EvictPop, EvictDelete, EvictFlush, EvictMark, counts
  <1>10. ASSUME NEW w \in Workers, PrefetchStep(w)
         PROVE  /\ UNCHANGED crashes
                /\ UNCHANGED faults \/ \E kind \in {"net", "disk"} : Fault(kind)
    <2>1. CASE PrefetchResponse(w)
      BY <2>1 DEF PrefetchResponse, Fine
    <2>2. CASE PrefetchFill(w)
      BY <1>4, <2>2 DEF PrefetchFill
    <2>3. CASE \/ PrefetchTake(w) \/ PrefetchDone(w) \/ PrefetchCheck(w)
               \/ PrefetchDownload(w) \/ PrefetchTouch(w)
      BY <2>3 DEF PrefetchTake, PrefetchDone, PrefetchCheck, PrefetchDownload, PrefetchTouch, counts
    <2> QED BY <1>10, <2>1, <2>2, <2>3 DEF PrefetchStep
  <1>11. CASE Flushing
    BY <1>2, <1>3, <1>11, FlushKeeps
  <1> QED BY <1>1, <1>2, <1>3, <1>5, <1>6, <1>7, <1>8, <1>9, <1>10, <1>11
          DEF Next, Crash, EvictDies, Flushing

-----------------------------------------------------------------------------
(* The plain copy.  A cell's last write is in the plain copy, or it is the *)
(* write in progress, which has stored its block and not yet come to the   *)
(* plain copy.                                                             *)

OnPlain(p, c) == c < Len(local[p]) /\ local[p][c + 1] = <<latest[p][c], p, c>>

ToCome(p, c) ==
    frame.pc \in {"mark", "track"} /\ frame.p = p /\ c >= Here /\ c < Here + Want

PlainInv ==
    /\ latest \in [Paths -> [Cells -> Nat]]
    /\ \A p \in Paths, c \in Cells : ToCome(p, c) => latest[p][c] = writes
    /\ NoDiskFault =>
         \A p \in Paths, c \in Cells : latest[p][c] > 0 => OnPlain(p, c) \/ ToCome(p, c)

PlainAll == DiskInv /\ CountsInv /\ PlainInv

(* A step that leaves the plain copy and the history alone, and is not one *)
(* of a write that still owes the plain copy its chunk.                    *)
LEMMA PlainKept ==
    ASSUME PlainInv, NoDiskFault' => NoDiskFault, UNCHANGED <<local, latest>>,
           \/ frame.pc \notin {"mark", "track"} /\ frame'.pc \notin {"mark", "track"}
           \/ UNCHANGED <<frame, writes>>
    PROVE  PlainInv'
  <1>1. \A p, c : OnPlain(p, c) => OnPlain(p, c)'
    BY DEF OnPlain
  <1>2. CASE UNCHANGED <<frame, writes>>
    <2>1. \A p, c : ToCome(p, c) <=> ToCome(p, c)'
      BY <1>2 DEF ToCome, Here, Want, In
    <2> QED BY <1>1, <1>2, <2>1 DEF PlainInv
  <1>3. CASE frame.pc \notin {"mark", "track"} /\ frame'.pc \notin {"mark", "track"}
    <2>1. \A p, c : ~ToCome(p, c) /\ ~ToCome(p, c)'
      BY <1>3 DEF ToCome
    <2> QED BY <1>1, <2>1 DEF PlainInv
  <1> QED BY <1>2, <1>3

(* The store of the block: the chunk is owed to the plain copy.            *)
LEMMA WriteStorePlain ==
    ASSUME PlainAll, NoDiskFault' => NoDiskFault, WriteStore
    PROVE  PlainInv'
  <1>1. /\ frame.pc = "store" /\ frame' = [frame EXCEPT !.pc = "mark"]
        /\ latest' = [latest EXCEPT ![frame.p] =
                        [c \in Cells |-> IF c >= Here /\ c < Here + Want THEN writes ELSE @[c]]]
        /\ UNCHANGED <<local, writes>>
    BY DEF WriteStore
  <1>2. frame \in Frame /\ frame.p \in Paths /\ writes \in Nat
    BY <1>1, InCall DEF PlainAll, DiskInv
  <1>3. /\ frame'.pc = "mark" /\ frame'.p = frame.p /\ frame'.off = frame.off
        /\ frame'.done = frame.done /\ frame'.len = frame.len
    BY <1>1, <1>2 DEF Frame
  <1>4. Here' = Here /\ Want' = Want
    BY <1>3 DEF Here, Want, In
  <1>5. latest \in [Paths -> [Cells -> Nat]]
    BY DEF PlainAll, PlainInv
  <1>6. latest' \in [Paths -> [Cells -> Nat]]
    BY <1>1, <1>2, <1>5
  <1>7. ASSUME NoDiskFault', NEW p \in Paths, NEW c \in Cells, latest'[p][c] > 0
        PROVE  OnPlain(p, c)' \/ ToCome(p, c)'
    <2>1. CASE p = frame.p /\ c >= Here /\ c < Here + Want
      <3>1. latest'[p][c] = writes
        BY <1>1, <1>2, <1>5, <2>1
      <3> QED BY <1>1, <1>3, <1>4, <2>1, <3>1 DEF ToCome
    <2>2. CASE ~(p = frame.p /\ c >= Here /\ c < Here + Want)
      <3>1. latest'[p][c] = latest[p][c]
        BY <1>1, <1>2, <1>5, <2>2
      <3>2. OnPlain(p, c)
        <4>1. ~ToCome(p, c)
          BY <1>1 DEF ToCome
        <4> QED BY <1>7, <3>1, <4>1 DEF PlainAll, PlainInv
      <3> QED BY <1>1, <3>1, <3>2 DEF OnPlain
    <2> QED BY <2>1, <2>2
  <1>8. ASSUME NEW p \in Paths, NEW c \in Cells, ToCome(p, c)'
        PROVE  latest'[p][c] = writes'
    <2>1. p = frame.p /\ c >= Here /\ c < Here + Want
      BY <1>3, <1>4, <1>8 DEF ToCome
    <2> QED BY <1>1, <1>2, <1>5, <2>1
  <1> QED BY <1>6, <1>7, <1>8 DEF PlainInv

(* The plain copy gets what it was owed.                                   *)
LEMMA WriteTrackPlain ==
    ASSUME PlainAll, NoDiskFault' => NoDiskFault, WriteTrack
    PROVE  PlainInv'
  <1>1. /\ frame.pc = "track" /\ UNCHANGED <<latest, writes, crashes>>
        /\ \/ local' = [local EXCEPT ![frame.p] = Plain(@)]
           \/ UNCHANGED local /\ Fault("disk")
    BY DEF WriteTrack, history
  <1>2. /\ frame \in Frame /\ <<frame.off, frame.len>> \in Ranges /\ frame.p \in Paths
        /\ frame.done < frame.len /\ writes \in Nat
    BY <1>1, InCall DEF PlainAll, DiskInv
  <1>3. latest \in [Paths -> [Cells -> Nat]] /\ local \in [Paths -> Seq(Val)]
    BY DEF PlainAll, PlainInv, DiskInv, LocalInv
  <1>4. Here \in Nat /\ Want \in Nat /\ Chunk \in Seq(Val) /\ Len(Chunk) = Want
        /\ \A i \in 1..Want : Chunk[i] = <<writes, frame.p, Here + i - 1>>
    BY <1>2, HereFacts, ChunkOwn
  <1>7. \A p, c : ~ToCome(p, c)'
    <2>1. frame'.pc = "write"
      BY <1>2 DEF WriteTrack, Frame
    <2> QED BY <2>1 DEF ToCome
  <1>5. CASE UNCHANGED local /\ Fault("disk")
    <2>1. ~NoDiskFault'
      BY <1>5, FaultCounts DEF PlainAll, NoDiskFault
    <2> QED BY <1>1, <1>3, <1>7, <2>1 DEF PlainInv
  <1>6. CASE local' = [local EXCEPT ![frame.p] = Plain(@)]
    <2> DEFINE f == local[frame.p]
               g == pwrite(f, Chunk, Here)
    <2>1. f \in Seq(Val) /\ local' = [local EXCEPT ![frame.p] = g]
      BY <1>2, <1>3, <1>6 DEF Plain
    <2>2. /\ Len(g) \in Nat /\ Len(f) <= Len(g) /\ (Chunk # <<>> => Here + Want <= Len(g))
          /\ \A i \in 1..Want : g[Here + i] = Chunk[i]
          /\ \A i \in 1..Len(f) : ~(i > Here /\ i <= Here + Want) => g[i] = f[i]
      <3>0. f \in Seq(Val) /\ Chunk \in Seq(Val) /\ Here \in Nat
        BY <1>4, <2>1
      <3> HIDE DEF f
      <3>1. /\ Len(g) \in Nat /\ Len(f) <= Len(g) /\ (Chunk # <<>> => Here + Len(Chunk) <= Len(g))
            /\ \A i \in 1..Len(Chunk) : g[Here + i] = Chunk[i]
            /\ \A i \in 1..Len(f) : ~(i > Here /\ i <= Here + Len(Chunk)) => g[i] = f[i]
        BY ONLY <3>0, PwriteAt
      <3> QED BY <1>4, <3>1
    <2> HIDE DEF g
    <2>3. ASSUME NoDiskFault', NEW p \in Paths, NEW c \in Cells, latest'[p][c] > 0
          PROVE  OnPlain(p, c)'
      <3>1. latest[p][c] > 0 /\ (OnPlain(p, c) \/ ToCome(p, c)) /\ c \in Nat
        BY <1>1, <2>3, LayoutAssumption DEF PlainAll, PlainInv, Cells
      <3>2. CASE p # frame.p
        <4>1. local'[p] = local[p] /\ ~ToCome(p, c)
          BY <1>3, <2>1, <3>2 DEF ToCome
        <4> QED BY <1>1, <3>1, <4>1 DEF OnPlain
      <3>3. CASE p = frame.p /\ c >= Here /\ c < Here + Want
        <4>1. local'[p] = g
          BY <1>2, <1>3, <2>1, <3>3
        <4> DEFINE i == c + 1 - Here
        <4>2. i \in 1..Want /\ Here + i = c + 1 /\ Here + i - 1 = c
          BY <1>4, <3>1, <3>3
        <4>3. Chunk # <<>>
          BY <1>4, <4>2
        <4>4. g[c + 1] = <<writes, p, c>> /\ c < Len(g)
          <5> HIDE DEF i
          <5>1. g[c + 1] = Chunk[i] /\ Chunk[i] = <<writes, frame.p, c>>
            BY <1>4, <2>2, <4>2
          <5>2. Here + Want <= Len(g)
            BY <2>2, <4>3
          <5> QED BY <1>4, <2>2, <3>1, <3>3, <5>1, <5>2
        <4>5. latest[p][c] = writes
          BY <1>1, <3>3 DEF PlainAll, PlainInv, ToCome
        <4> QED BY <1>1, <4>1, <4>4, <4>5 DEF OnPlain
      <3>4. CASE p = frame.p /\ ~(c >= Here /\ c < Here + Want)
        <4>1. OnPlain(p, c) /\ local'[p] = g
          BY <1>2, <1>3, <2>1, <3>1, <3>4 DEF ToCome
        <4>2. c + 1 \in 1..Len(f) /\ ~(c + 1 > Here /\ c + 1 <= Here + Want)
          BY <1>4, <2>1, <3>1, <3>4, <4>1 DEF OnPlain
        <4>3. g[c + 1] = f[c + 1] /\ c < Len(g)
          BY <2>1, <2>2, <4>2, <3>1
        <4> QED BY <1>1, <3>4, <4>1, <4>3 DEF OnPlain
      <3> QED BY <3>2, <3>3, <3>4
    <2> QED BY <1>1, <1>3, <1>7, <2>3 DEF PlainInv
  <1> QED BY <1>1, <1>5, <1>6

(* Marking the block dirty.                                                *)
LEMMA WriteMarkPlain ==
    ASSUME PlainAll, NoDiskFault' => NoDiskFault, WriteMark
    PROVE  PlainInv'
  <1>1. /\ frame.pc = "mark" /\ frame' = [frame EXCEPT !.pc = "track"]
        /\ UNCHANGED <<local, latest, writes>>
    BY DEF WriteMark, disk, history, counts
  <1>2. frame \in Frame
    BY <1>1, InCall DEF PlainAll
  <1>3. /\ frame'.pc = "track" /\ frame'.p = frame.p /\ frame'.off = frame.off
        /\ frame'.done = frame.done /\ frame'.len = frame.len
    BY <1>1, <1>2 DEF Frame
  <1>4. \A p, c : (ToCome(p, c) <=> ToCome(p, c)') /\ (OnPlain(p, c) => OnPlain(p, c)')
    BY <1>1, <1>3 DEF ToCome, OnPlain, Here, Want, In
  <1> QED BY <1>1, <1>4 DEF PlainAll, PlainInv

(* A step that neither stores, marks nor tracks a written block.           *)
LEMMA OtherStepPlain ==
    ASSUME PlainAll, NoDiskFault' => NoDiskFault, [Next]_vars,
           ~WriteStore, ~WriteMark, ~WriteTrack, ~Restarted
    PROVE  PlainInv'
  <1>0. PlainInv
    BY DEF PlainAll
  <1>1. CASE UNCHANGED <<local, latest, frame, writes>>
    BY <1>0, <1>1, PlainKept
  <1>2. CASE /\ UNCHANGED <<local, latest>> /\ frame.pc \notin {"mark", "track"}
             /\ frame'.pc \notin {"mark", "track"}
    BY <1>0, <1>2, PlainKept
  <1>3. ASSUME NEW op \in {"read", "write"}, NEW p \in Paths, NEW r \in Ranges,
               Begin(op, p, r[1], r[2])
        PROVE  PlainInv'
    BY <1>2, <1>3 DEF Begin, Free, Idle, disk, history
  <1>4. ASSUME Finish \/ ReadStore \/ ReadDownload \/ ReadResponse \/ ReadFill \/ ReadCopy \/ WriteLoad
        PROVE  PlainInv'
    <2>1. frame.pc \in {"read", "write", "download", "response", "fill", "copy"}
      BY <1>4 DEF Finish, ReadStore, ReadDownload, ReadResponse, ReadFill, ReadCopy, WriteLoad
    <2>2. frame \in Frame
      BY <2>1, InCall DEF PlainAll
    <2>3. UNCHANGED <<local, latest>>
      BY <1>4 DEF Finish, ReadStore, ReadDownload, ReadResponse, ReadFill, ReadCopy, WriteLoad,
                  disk, history
    <2>4. frame'.pc \notin {"mark", "track"}
      <3>1. CASE Finish
        BY <3>1 DEF Finish, Return, Idle
      <3>2. CASE ReadStore \/ ReadDownload \/ ReadFill \/ ReadCopy \/ WriteLoad
        BY <2>2, <3>2 DEF ReadStore, ReadDownload, ReadFill, ReadCopy, WriteLoad, Frame
      <3>3. CASE ReadResponse
        <4>1. PICK ok \in BOOLEAN :
                \/ frame' = [frame EXCEPT !.block = Fetched(frame.p, Blk, ok), !.pc = "fill"]
                \/ frame' = Idle
          BY <3>3 DEF ReadResponse, Return
        <4>2. CASE frame' = [frame EXCEPT !.block = Fetched(frame.p, Blk, ok), !.pc = "fill"]
          BY <2>2, <4>2 DEF Frame
        <4>3. CASE frame' = Idle
          BY <4>3 DEF Idle
        <4> QED BY <4>1, <4>2, <4>3
      <3> QED BY <1>4, <3>1, <3>2, <3>3
    <2> QED BY <1>2, <2>1, <2>3, <2>4
  <1>5. CASE FlushAll \/ Cleanup \/ Rest \/ UNCHANGED vars
    BY <1>1, <1>5 DEF FlushAll, Cleanup, Rest, vars, disk, history, counts
  <1>6. ASSUME NEW e \in Evictors, NEW n \in Limits, EvictBegin(e, n)
        PROVE  PlainInv'
    BY <1>1, <1>6 DEF EvictBegin, disk, history
  <1>7. ASSUME NEW e \in Evictors, EvictStep(e)
        PROVE  PlainInv'
    BY <1>1, <1>7 DEF EvictStep, EvictCheck, EvictPop, EvictDelete, EvictFlush, EvictMark, disk,
                      history, counts
  <1>8. ASSUME NEW w \in Workers, PrefetchStep(w)
        PROVE  PlainInv'
    BY <1>1, <1>8 DEF PrefetchStep, PrefetchTake, PrefetchDone, PrefetchCheck, PrefetchDownload,
                      PrefetchResponse, PrefetchFill, PrefetchTouch, disk, history, counts
  <1>9. CASE Flushing
    BY <1>1, <1>9, FlushKeeps
  <1> QED BY <1>3, <1>4, <1>5, <1>6, <1>7, <1>8, <1>9
          DEF Next, CallStep, Crash, EvictDies, Flushing

(* The invariant is inductive.                                             *)
LEMMA NextPlain == PlainAll /\ [Next]_vars => PlainAll'
  <1> SUFFICES ASSUME PlainAll, [Next]_vars PROVE PlainAll'
    OBVIOUS
  <1>1. DiskInv' /\ CountsInv' /\ (NoDiskFault' => NoDiskFault)
    BY NextDisk, NextCounts DEF PlainAll
  <1>2. CASE Restarted
    <2>1. /\ UNCHANGED latest /\ crashes' = crashes + 1 /\ frame' = Idle
      BY <1>2 DEF Restarted, history
    <2>2. ~NoDiskFault' /\ \A p, c : ~ToCome(p, c)'
      BY <2>1 DEF NoDiskFault, PlainAll, CountsInv, ToCome, Idle
    <2>3. PlainInv'
      BY <2>1, <2>2 DEF PlainAll, PlainInv
    <2> QED BY <1>1, <2>3 DEF PlainAll
  <1>3. CASE ~Restarted
    BY <1>1, <1>3, WriteStorePlain, WriteMarkPlain, WriteTrackPlain, OtherStepPlain DEF PlainAll
  <1> QED BY <1>2, <1>3

(* Initially nothing was written.                                          *)
LEMMA InitPlain == Init => PlainAll
  <1> SUFFICES ASSUME Init PROVE PlainAll
    OBVIOUS
  <1>1. DiskInv /\ CountsInv
    BY InitDisk DEF Init, CountsInv
  <1>2. latest = [p \in Paths |-> [c \in Cells |-> 0]] /\ frame.pc = "idle"
    BY DEF Init, Idle
  <1>3. PlainInv
    BY <1>2 DEF PlainInv, ToCome
  <1> QED BY <1>1, <1>3 DEF PlainAll

(* Between calls nothing is owed to the plain copy.                        *)
LEMMA PlainHasAll == PlainAll => PlainCopyHasWrites
  <1> SUFFICES ASSUME PlainAll, frame = Idle, NoDiskFault, NEW p \in Paths, NEW c \in Cells,
                      latest[p][c] > 0
               PROVE  OnPlain(p, c)
    BY DEF PlainCopyHasWrites, NoDiskFault, OnPlain
  <1>1. ~ToCome(p, c)
    BY DEF ToCome, Idle
  <1> QED BY <1>1 DEF PlainAll, PlainInv

(* Whatever is evicted or prefetched meanwhile, between calls the plain    *)
(* copy has the last write of every cell, as long as no file write failed  *)
(* and the process did not die within a write (cache_manager.cc:152-153).  *)
THEOREM PlainCopyIsComplete == Spec => []PlainCopyHasWrites
  <1>1. Init => PlainAll
    BY InitPlain
  <1>2. PlainAll /\ [Next]_vars => PlainAll'
    BY NextPlain
  <1>3. PlainAll => PlainCopyHasWrites
    BY PlainHasAll
  <1> QED BY <1>1, <1>2, <1>3, PTL DEF Spec

-----------------------------------------------------------------------------
(* Dirty blocks.  A written cell in the store has its block marked in the  *)
(* bitmap in memory, or the write that stored it is about to mark it; the  *)
(* plain copy, from which a read may fill the store, holds marked blocks   *)
(* only.  What is marked belongs to a known entry.                         *)
(*                                                                         *)
(* From cache_cleanup on, nothing is marked any more and nothing but its   *)
(* own flush touches the bitmap files, because evictors have returned and  *)
(* an evictor that is not at its flush has none under way.  Every marked   *)
(* block is then on disk, or still ahead of the flush: its object in rest, *)
(* its part in todo, or its bit among those about to be written.           *)

Dirty(v) == v # Zero /\ v[1] > 0
BitAt(k, i) == <<k, CellAt(k, i) \div kBlockSize>>
BlockBit(blk) == <<PartOf(Offset(blk)), blk>>

StoreDirt ==
    \A p \in Paths, k \in Parts : \A i \in 1..Len(store[p][k]) :
        Dirty(store[p][k][i]) =>
            \/ BitAt(k, i) \in bitmap[p]
            \/ frame.pc = "mark" /\ frame.p = p /\ BitAt(k, i) = BlockBit(Blk)

LocalDirt ==
    \A p \in Paths : \A i \in 1..Len(local[p]) :
        Dirty(local[p][i]) => BlockBit((i - 1) \div kBlockSize) \in bitmap[p]

FrameDirt ==
    /\ frame.pc = "fill" =>
         \A i \in 1..Len(frame.block) : Dirty(frame.block[i]) => BlockBit(Blk) \in bitmap[frame.p]
    /\ frame.pc = "track" => BlockBit(Blk) \in bitmap[frame.p]

JobDirt ==
    \A w \in Workers : wk[w].pc = "fill" => \A i \in 1..Len(wk[w].buf) : ~Dirty(wk[w].buf[i])

DirtInv == JobDirt /\ (crashes = 0 => StoreDirt /\ LocalDirt /\ FrameDirt)

KnownInv ==
    \A p \in Paths : bitmap[p] # {} \/ (frame # Idle /\ frame.p = p) => entries[p].present

Calm == frame = Idle /\ \A e \in Evictors : ev[e] = Idle /\ fl[e] = NoFlush

Ahead(p, b) ==
    /\ fl[Caller].p = p
    /\ b[1] \in fl[Caller].todo \/ (fl[Caller].st = "write" /\ b \in fl[Caller].bits)

FlusherInv == \A e \in Evictors : fl[e] = NoFlush \/ ev[e].pc = "mark"

CalmInv == phase # "up" => Calm

ClosingInv ==
    phase = "closing" =>
        /\ fl[Caller].st \in {"open", "write"}
        /\ fl[Caller].st = "write" =>
             \A b \in bitmap[fl[Caller].p] : b[1] = fl[Caller].k => b \in fl[Caller].bits
        /\ faults["disk"] = 0 =>
             \A p \in Paths : \/ p \in fl[Caller].rest
                              \/ \A b \in bitmap[p] : b \in dmap[p] \/ Ahead(p, b)

ReleasedInv ==
    phase = "released" =>
        /\ fl[Caller] = NoFlush
        /\ faults["disk"] = 0 => \A p \in Paths : bitmap[p] \subseteq dmap[p]

SavedInv == FlusherInv /\ CalmInv /\ ClosingInv /\ ReleasedInv

DirtAll == TypeAll /\ CountsInv /\ DirtInv /\ KnownInv /\ SavedInv

(* Multiples of the block size lie a block apart.                          *)
LEMMA MultipleStep ==
    ASSUME NEW a \in Int, NEW b \in Int, NEW s \in Nat, a < b
    PROVE  a * s + s <= b * s /\ a * s \in Int /\ b * s \in Int
  <1>1. PICK d \in Nat : b = a + 1 + d
    <2> DEFINE d == b - a - 1
    <2>1. d \in Nat /\ b = a + 1 + d
      OBVIOUS
    <2> QED BY <2>1
  <1>2. b * s = a * s + s + d * s /\ d * s \in Nat /\ a * s \in Int
    BY <1>1
  <1> QED BY <1>2

(* The block of a cell is the one whose offsets it lies between.           *)
LEMMA BlockOfCell ==
    ASSUME NEW blk \in Nat, NEW c \in Nat, Offset(blk) <= c, c < Offset(blk) + kBlockSize
    PROVE  c \div kBlockSize = blk
  <1> DEFINE q == c \div kBlockSize
             r == c % kBlockSize
             s == kBlockSize
  <1>1. /\ q \in Nat /\ r \in Nat /\ r < s /\ Offset(q) + r = c
    BY BlockArithmetic
  <1>2. Offset(q) = q * s /\ Offset(blk) = blk * s /\ s \in Nat
    BY LayoutAssumption DEF Offset
  <1> HIDE DEF q, r, s
  <1>3. CASE q < blk
    <2>1. q * s + s <= blk * s /\ q * s \in Int /\ blk * s \in Int
      BY <1>1, <1>2, <1>3, MultipleStep
    <2> QED BY <1>1, <1>2, <2>1 DEF s
  <1>4. CASE blk < q
    <2>1. blk * s + s <= q * s /\ q * s \in Int /\ blk * s \in Int
      BY <1>1, <1>2, <1>4, MultipleStep
    <2> QED BY <1>1, <1>2, <2>1 DEF s
  <1>5. CASE q = blk
    BY <1>5 DEF q
  <1> QED BY <1>1, <1>3, <1>4, <1>5

(* The positions of a block in its part are those of its cells.            *)
LEMMA CellsOfBlock ==
    ASSUME NEW blk \in Nat, NEW i \in Nat, i > InPart(Offset(blk)),
           i <= InPart(Offset(blk)) + kBlockSize
    PROVE  /\ CellAt(PartOf(Offset(blk)), i) = Offset(blk) + (i - InPart(Offset(blk)) - 1)
           /\ CellAt(PartOf(Offset(blk)), i) \in Nat
           /\ BitAt(PartOf(Offset(blk)), i) = BlockBit(blk)
  <1> DEFINE off == Offset(blk)
             k == PartOf(off)
             j == InPart(off)
             c == CellAt(k, i)
  <1>1. off \in Nat /\ k \in Nat /\ j \in Nat /\ k * kMaxPartSize + j = off
        /\ kBlockSize \in Nat /\ kMaxPartSize \in Nat
    BY OffsetNat, PartArithmetic, LayoutAssumption
  <1>2. k * kMaxPartSize \in Nat /\ c = k * kMaxPartSize + i - 1
    <2> HIDE DEF k
    <2> QED BY <1>1 DEF CellAt
  <1>3. i > j /\ i <= j + kBlockSize
    OBVIOUS
  <1>4. c \in Nat /\ c = off + (i - j - 1) /\ off <= c /\ c < off + kBlockSize
    <2> HIDE DEF off, k, j, c
    <2> QED BY <1>1, <1>2, <1>3
  <1>5. c \div kBlockSize = blk
    <2> HIDE DEF c
    <2> QED BY <1>4, BlockOfCell
  <1> QED BY <1>4, <1>5 DEF BitAt, BlockBit

(* What a write to the store leaves where: a cell is as before, a hole, or *)
(* one of the data, which all lie in the block.                            *)
LEMMA StoreWriteCells ==
    ASSUME DiskInv, NEW p \in Paths, NEW blk \in Nat, NEW data \in Seq(Val),
           Len(data) <= kBlockSize, StoreWrite(p, data, blk),
           NEW q \in Paths, NEW k \in Parts, NEW i \in 1..Len(store'[q][k])
    PROVE  \/ i \in 1..Len(store[q][k]) /\ store'[q][k][i] = store[q][k][i]
           \/ store'[q][k][i] = Zero
           \/ /\ q = p /\ BitAt(k, i) = BlockBit(blk)
              /\ \E j \in 1..Len(data) : store'[q][k][i] = data[j]
  <1>1. CASE UNCHANGED store
    BY <1>1
  <1>2. CASE store' = [store EXCEPT ![p] = write(@, data, Offset(blk))]
    <2> DEFINE l == PartOf(Offset(blk))
               off == InPart(Offset(blk))
               obj == store[p]
               f == pwrite(obj[l], data, off)
    <2>1. store' = [store EXCEPT ![p] = [obj EXCEPT ![l] = f]]
      BY <1>2 DEF write
    <2>2. off \in Nat
      BY OffsetNat, PartArithmetic
    <2>3. store = [x \in Paths |-> store[x]] /\ \A x \in Paths : store[x] \in [Parts -> Seq(Val)]
      BY DEF DiskInv, StoreInv, ObjectInv
    <2>4. CASE q = p /\ k = l
      <3>1. store'[q][k] = f /\ obj[l] \in Seq(Val) /\ store[q][k] = obj[l]
        <4> HIDE DEF l, f
        <4> QED BY <2>1, <2>3, <2>4
      <3>2. i \in Nat /\ i >= 1 /\ i <= Len(f) /\ Len(obj[l]) \in Nat /\ Len(data) \in Nat
        <4>1. Len(f) \in Nat
          <5> HIDE DEF obj, l, off
          <5> QED BY <2>2, <3>1, PwriteAt
        <4> HIDE DEF f, obj, l
        <4> QED BY <3>1, <4>1
      <3>3. CASE i > off /\ i <= off + Len(data)
        <4> DEFINE j == i - off
        <4>1. j \in 1..Len(data) /\ off + j = i
          <5> HIDE DEF off
          <5> QED BY <2>2, <3>2, <3>3
        <4>2. f[off + j] = data[j]
          <5> HIDE DEF obj, l, off, j
          <5> QED BY <2>2, <3>1, <4>1, PwriteAt
        <4>3. i <= off + kBlockSize
          <5> HIDE DEF off
          <5> QED BY <2>2, <3>2, <3>3, LayoutAssumption
        <4>4. BitAt(k, i) = BlockBit(blk)
          BY <2>4, <3>2, <3>3, <4>3, CellsOfBlock
        <4> HIDE DEF f, j
        <4> QED BY <2>4, <3>1, <4>1, <4>2, <4>4
      <3>4. CASE ~(i > off /\ i <= off + Len(data)) /\ i <= Len(obj[l])
        <4> HIDE DEF obj, l, off
        <4>1. i \in 1..Len(obj[l])
          BY <3>2, <3>4
        <4>2. f[i] = obj[l][i]
          BY <2>2, <3>1, <3>4, <4>1, PwriteAt
        <4> QED BY <3>1, <4>1, <4>2
      <3>5. CASE ~(i > off /\ i <= off + Len(data)) /\ ~(i <= Len(obj[l]))
        <4> HIDE DEF obj, l, off
        <4>1. f[i] = Zero
          BY <2>2, <3>1, <3>2, <3>5, PwriteAt
        <4> QED BY <3>1, <4>1
      <3> QED BY <3>3, <3>4, <3>5
    <2>5. CASE ~(q = p /\ k = l)
      <3>1. store'[q][k] = store[q][k]
        <4> HIDE DEF l, f
        <4> QED BY <2>1, <2>3, <2>5
      <3> QED BY <3>1
    <2> QED BY <2>4, <2>5
  <1> QED BY <1>1, <1>2 DEF StoreWrite

(* A step that moves no cells and marks nothing, and in which no write is  *)
(* about to mark its block.                                                *)
LEMMA DirtKept ==
    ASSUME DirtInv, UNCHANGED <<store, local, bitmap, wk>>, crashes' = 0 => crashes = 0,
           \/ UNCHANGED frame
           \/ frame.pc # "mark" /\ frame'.pc \notin {"fill", "track"}
    PROVE  DirtInv'
  <1>1. JobDirt'
    BY DEF DirtInv, JobDirt
  <1>2. ASSUME crashes' = 0 PROVE LocalDirt'
    BY <1>2 DEF DirtInv, LocalDirt
  <1>3. ASSUME crashes' = 0 PROVE StoreDirt' /\ FrameDirt'
    <2>1. StoreDirt /\ FrameDirt
      BY <1>3 DEF DirtInv
    <2>2. CASE UNCHANGED frame
      BY <2>1, <2>2 DEF StoreDirt, FrameDirt, Blk, Here
    <2>3. CASE frame.pc # "mark" /\ frame'.pc \notin {"fill", "track"}
      BY <2>1, <2>3 DEF StoreDirt, FrameDirt
    <2> QED BY <2>2, <2>3
  <1> QED BY <1>1, <1>2, <1>3 DEF DirtInv

(* A write to the store of cells that are clean or of a marked block, by a *)
(* call that is not marking.                                               *)
LEMMA StoreWriteDirt ==
    ASSUME DiskInv, StoreDirt, NEW p \in Paths, NEW blk \in Nat, NEW data \in Seq(Val),
           Len(data) <= kBlockSize, StoreWrite(p, data, blk), UNCHANGED bitmap,
           UNCHANGED frame \/ frame.pc # "mark",
           \/ \A i \in 1..Len(data) : Dirty(data[i]) => BlockBit(blk) \in bitmap[p]
           \/ frame'.pc = "mark" /\ frame'.p = p /\ Blk' = blk
    PROVE  StoreDirt'
  <1> SUFFICES ASSUME NEW q \in Paths, NEW k \in Parts, NEW i \in 1..Len(store'[q][k]),
                      Dirty(store'[q][k][i])
               PROVE  \/ BitAt(k, i) \in bitmap'[q]
                      \/ frame'.pc = "mark" /\ frame'.p = q /\ BitAt(k, i) = BlockBit(Blk')
    BY DEF StoreDirt, BitAt, CellAt, BlockBit, PartOf, Offset, Dirty
  <1>1. CASE i \in 1..Len(store[q][k]) /\ store'[q][k][i] = store[q][k][i]
    <2>1. \/ BitAt(k, i) \in bitmap[q]
          \/ frame.pc = "mark" /\ frame.p = q /\ BitAt(k, i) = BlockBit(Blk)
      BY <1>1 DEF StoreDirt
    <2>2. UNCHANGED frame => Blk' = Blk
      BY DEF Blk, Here
    <2> QED BY <2>1, <2>2
  <1>2. CASE store'[q][k][i] = Zero
    BY <1>2 DEF Dirty
  <1>3. CASE /\ q = p /\ BitAt(k, i) = BlockBit(blk)
             /\ \E j \in 1..Len(data) : store'[q][k][i] = data[j]
    BY <1>3
  <1> QED BY <1>1, <1>2, <1>3, StoreWriteCells

(* What a read fetched is clean, or the block is marked.                   *)
LEMMA FetchedDirt ==
    ASSUME DiskInv, LocalDirt, NEW p \in Paths, NEW blk \in Nat, NEW ok \in BOOLEAN,
           NEW i \in 1..Len(Fetched(p, blk, ok)), Dirty(Fetched(p, blk, ok)[i])
    PROVE  BlockBit(blk) \in bitmap[p]
  <1> DEFINE off == Offset(blk)
             r == pread(local[p], kBlockSize, off)
  <1>1. local[p] \in Seq(Val) /\ off \in Nat /\ kBlockSize \in Nat
    BY OffsetNat, LayoutAssumption DEF DiskInv, LocalInv
  <1>2. CASE Fetched(p, blk, ok) = download(p, blk)
    <2>1. Fetched(p, blk, ok)[i] = <<0, p, off + i - 1>>
      BY <1>2, DownloadAt
    <2> QED BY <2>1 DEF Dirty
  <1>3. CASE Fetched(p, blk, ok) = r
    <2>1. /\ Len(r) \in Nat /\ Len(r) <= kBlockSize
          /\ \A j \in 1..Len(r) : off + j \in 1..Len(local[p]) /\ r[j] = local[p][off + j]
      <3> HIDE DEF off
      <3> QED BY ONLY <1>1, PreadAt DEF r
    <2> HIDE DEF off, r
    <2>2. i \in 1..Len(r) /\ off + i \in 1..Len(local[p]) /\ Dirty(local[p][off + i])
      BY <1>3, <2>1
    <2>3. BlockBit(((off + i) - 1) \div kBlockSize) \in bitmap[p]
      <3> DEFINE j == off + i
      <3>1. j \in 1..Len(local[p]) /\ Dirty(local[p][j])
        BY <2>2
      <3> HIDE DEF j
      <3>2. BlockBit((j - 1) \div kBlockSize) \in bitmap[p]
        BY <3>1 DEF LocalDirt
      <3> QED BY <3>2 DEF j
    <2>4. ((off + i) - 1) \div kBlockSize = blk
      <3>1. (off + i) - 1 \in Nat /\ off <= (off + i) - 1 /\ (off + i) - 1 < off + kBlockSize
        BY <1>1, <2>1, <2>2
      <3> QED BY <3>1, BlockOfCell DEF off
    <2> QED BY <2>3, <2>4
  <1> QED BY <1>2, <1>3 DEF Fetched

(* The answer of the backend.                                              *)
LEMMA ReadResponseDirt ==
    ASSUME DirtAll, ReadResponse
    PROVE  DirtInv'
  <1>1. frame.pc = "response" /\ UNCHANGED <<store, local, bitmap, wk, crashes>>
    BY DEF ReadResponse, index, disk
  <1>2. /\ DiskInv /\ DirtInv /\ frame \in Frame /\ <<frame.off, frame.len>> \in Ranges
        /\ frame.p \in Paths /\ frame.done < frame.len
    BY <1>1, InCall DEF DirtAll, TypeAll
  <1>3. Blk \in Nat
    BY <1>2, HereFacts
  <1>4. PICK ok \in BOOLEAN :
          \/ frame' = [frame EXCEPT !.block = Fetched(frame.p, Blk, ok), !.pc = "fill"]
          \/ frame' = Idle
    BY DEF ReadResponse, Return
  <1>5. CASE frame' = Idle
    BY <1>1, <1>2, <1>5, DirtKept DEF Idle
  <1>6. CASE frame' = [frame EXCEPT !.block = Fetched(frame.p, Blk, ok), !.pc = "fill"]
    <2>1. /\ frame'.pc = "fill" /\ frame'.p = frame.p /\ frame'.off = frame.off
          /\ frame'.done = frame.done /\ frame'.block = Fetched(frame.p, Blk, ok)
      BY <1>2, <1>6 DEF Frame
    <2>2. Blk' = Blk
      BY <2>1 DEF Blk, Here
    <2>3. ASSUME crashes' = 0 PROVE StoreDirt' /\ LocalDirt' /\ FrameDirt'
      <3>1. StoreDirt /\ LocalDirt
        BY <1>1, <1>2, <2>3 DEF DirtInv
      <3>2. StoreDirt' /\ LocalDirt'
        BY <1>1, <2>1, <3>1 DEF StoreDirt, LocalDirt
      <3>3. \A i \in 1..Len(frame'.block) : Dirty(frame'.block[i]) => BlockBit(Blk) \in bitmap[frame.p]
        BY <1>2, <1>3, <2>1, <3>1, FetchedDirt
      <3>4. FrameDirt'
        BY <1>1, <2>1, <2>2, <3>3 DEF FrameDirt
      <3> QED BY <3>2, <3>4
    <2> QED BY <1>1, <1>2, <2>3 DEF DirtInv, JobDirt
  <1> QED BY <1>4, <1>5, <1>6

(* The fill of a read stores clean cells or those of a marked block.       *)
LEMMA ReadFillDirt ==
    ASSUME DirtAll, ReadFill
    PROVE  DirtInv'
  <1>1. /\ frame.pc = "fill" /\ frame' = [frame EXCEPT !.pc = "copy"]
        /\ StoreWrite(frame.p, frame.block, Blk) /\ UNCHANGED <<local, bitmap, wk, crashes>>
    BY DEF ReadFill, index
  <1>2. /\ DiskInv /\ DirtInv /\ frame \in Frame /\ <<frame.off, frame.len>> \in Ranges
        /\ frame.p \in Paths /\ frame.done < frame.len /\ frame.block \in Seq(Val)
        /\ Len(frame.block) <= kBlockSize
    BY <1>1, InCall DEF DirtAll, TypeAll, SizeInv, FrameSize
  <1>3. Blk \in Nat /\ frame'.pc = "copy"
    BY <1>1, <1>2, HereFacts DEF Frame
  <1>4. ASSUME crashes' = 0 PROVE StoreDirt' /\ LocalDirt' /\ FrameDirt'
    <2>1. StoreDirt /\ LocalDirt /\ FrameDirt
      BY <1>1, <1>2, <1>4 DEF DirtInv
    <2>2. \A i \in 1..Len(frame.block) : Dirty(frame.block[i]) => BlockBit(Blk) \in bitmap[frame.p]
      BY <1>1, <2>1 DEF FrameDirt
    <2>3. StoreDirt'
      BY <1>1, <1>2, <1>3, <2>1, <2>2, StoreWriteDirt
    <2> QED BY <1>1, <1>3, <2>1, <2>3 DEF LocalDirt, FrameDirt
  <1> QED BY <1>1, <1>2, <1>4 DEF DirtInv, JobDirt

(* A write stores its block and goes on to mark it.                        *)
LEMMA WriteStoreDirt ==
    ASSUME DirtAll, WriteStore
    PROVE  DirtInv'
  <1>1. /\ frame.pc = "store" /\ frame' = [frame EXCEPT !.pc = "mark"]
        /\ StoreWrite(frame.p, frame.block, Blk) /\ UNCHANGED <<local, bitmap, wk, crashes>>
    BY DEF WriteStore, index
  <1>2. /\ DiskInv /\ DirtInv /\ frame \in Frame /\ <<frame.off, frame.len>> \in Ranges
        /\ frame.p \in Paths /\ frame.done < frame.len /\ frame.block \in Seq(Val)
        /\ Len(frame.block) <= kBlockSize
    BY <1>1, InCall DEF DirtAll, TypeAll, SizeInv, FrameSize
  <1>3. /\ Blk \in Nat /\ frame'.pc = "mark" /\ frame'.p = frame.p
        /\ frame'.off = frame.off /\ frame'.done = frame.done
    BY <1>1, <1>2, HereFacts DEF Frame
  <1>4. Blk' = Blk
    BY <1>3 DEF Blk, Here
  <1>5. ASSUME crashes' = 0 PROVE StoreDirt' /\ LocalDirt' /\ FrameDirt'
    <2>1. StoreDirt /\ LocalDirt
      BY <1>1, <1>2, <1>5 DEF DirtInv
    <2>2. StoreDirt'
      BY <1>1, <1>2, <1>3, <1>4, <2>1, StoreWriteDirt
    <2> QED BY <1>1, <1>3, <2>1, <2>2 DEF LocalDirt, FrameDirt
  <1> QED BY <1>1, <1>2, <1>5 DEF DirtInv, JobDirt

(* The block is marked.                                                    *)
LEMMA WriteMarkDirt ==
    ASSUME DirtAll, WriteMark
    PROVE  DirtInv'
  <1>1. /\ frame.pc = "mark" /\ frame' = [frame EXCEPT !.pc = "track"]
        /\ bitmap' = [bitmap EXCEPT ![frame.p] = @ \cup {BlockBit(Blk)}]
        /\ UNCHANGED <<store, local, wk, crashes>>
    BY DEF WriteMark, Marked, BlockBit, disk, counts
  <1>2. /\ DirtInv /\ frame \in Frame /\ frame.p \in Paths
        /\ bitmap \in [Paths -> SUBSET (Parts \X Nat)]
    BY <1>1, InCall DEF DirtAll, TypeAll, IndexInv
  <1>3. /\ frame'.pc = "track" /\ frame'.p = frame.p
        /\ frame'.off = frame.off /\ frame'.done = frame.done
    BY <1>1, <1>2 DEF Frame
  <1>4. Blk' = Blk
    BY <1>3 DEF Blk, Here
  <1>5. (\A p \in Paths : bitmap[p] \subseteq bitmap'[p]) /\ BlockBit(Blk) \in bitmap'[frame.p]
    BY <1>1, <1>2
  <1>6. ASSUME crashes' = 0 PROVE StoreDirt' /\ LocalDirt' /\ FrameDirt'
    <2>1. StoreDirt /\ LocalDirt
      BY <1>1, <1>2, <1>6 DEF DirtInv
    <2>2. StoreDirt'
      BY <1>1, <1>5, <2>1 DEF StoreDirt
    <2>3. LocalDirt'
      BY <1>1, <1>5, <2>1 DEF LocalDirt
    <2>4. FrameDirt'
      BY <1>3, <1>4, <1>5 DEF FrameDirt
    <2> QED BY <2>2, <2>3, <2>4
  <1> QED BY <1>1, <1>2, <1>6 DEF DirtInv, JobDirt

(* The plain copy gets cells of the block that was marked.                 *)
LEMMA WriteTrackDirt ==
    ASSUME DirtAll, WriteTrack
    PROVE  DirtInv'
  <1>1. /\ frame.pc = "track"
        /\ frame' = [frame EXCEPT !.pc = "write", !.block = <<>>, !.done = @ + Want]
        /\ UNCHANGED <<store, bitmap, wk, crashes>>
        /\ local' = [local EXCEPT ![frame.p] = pwrite(@, Chunk, Here)] \/ UNCHANGED local
    BY DEF WriteTrack, Plain
  <1>2. /\ DiskInv /\ DirtInv /\ frame \in Frame /\ <<frame.off, frame.len>> \in Ranges
        /\ frame.p \in Paths /\ frame.done < frame.len /\ writes \in Nat
        /\ local \in [Paths -> Seq(Val)]
    BY <1>1, InCall DEF DirtAll, TypeAll, DiskInv, LocalInv
  <1>3. /\ Here \in Nat /\ Want \in Nat /\ Blk \in Nat /\ In \in Nat /\ Offset(Blk) \in Nat
        /\ Offset(Blk) + In = Here /\ In + Want <= kBlockSize
        /\ Chunk \in Seq(Val) /\ Len(Chunk) = Want /\ frame'.pc = "write"
    BY <1>1, <1>2, HereFacts, ChunkOwn DEF Frame
  <1>4. ASSUME crashes' = 0 PROVE StoreDirt' /\ LocalDirt' /\ FrameDirt'
    <2>1. StoreDirt /\ LocalDirt /\ FrameDirt
      BY <1>1, <1>2, <1>4 DEF DirtInv
    <2>2. StoreDirt' /\ FrameDirt'
      BY <1>1, <1>3, <2>1 DEF StoreDirt, FrameDirt
    <2>3. LocalDirt'
      <3>1. CASE UNCHANGED local
        BY <1>1, <2>1, <3>1 DEF LocalDirt
      <3>2. CASE local' = [local EXCEPT ![frame.p] = pwrite(@, Chunk, Here)]
        <4> DEFINE f == local[frame.p]
                   g == pwrite(f, Chunk, Here)
        <4>1. f \in Seq(Val) /\ local' = [local EXCEPT ![frame.p] = g]
          BY <1>2, <3>2
        <4>2. /\ Len(g) \in Nat
              /\ \A i \in 1..Len(f) : ~(i > Here /\ i <= Here + Len(Chunk)) => g[i] = f[i]
              /\ \A i \in 1..Len(g) :
                   ~(i > Here /\ i <= Here + Len(Chunk)) /\ ~(i <= Len(f)) => g[i] = Zero
          <5>1. f \in Seq(Val) /\ Chunk \in Seq(Val) /\ Here \in Nat
            BY <1>3, <4>1
          <5> HIDE DEF f
          <5> QED BY ONLY <5>1, PwriteAt
        <4> HIDE DEF f, g
        <4>3. ASSUME NEW i \in 1..Len(g), Dirty(g[i])
              PROVE  BlockBit((i - 1) \div kBlockSize) \in bitmap[frame.p]
          <5>1. CASE i > Here /\ i <= Here + Want
            <6>1. /\ i - 1 \in Nat /\ Offset(Blk) <= i - 1
                  /\ i - 1 < Offset(Blk) + kBlockSize
              BY <1>3, <4>2, <5>1, LayoutAssumption
            <6>2. (i - 1) \div kBlockSize = Blk
              BY <1>3, <6>1, BlockOfCell
            <6> QED BY <1>1, <2>1, <6>2 DEF FrameDirt
          <5>2. CASE ~(i > Here /\ i <= Here + Want)
            <6>1. i \in 1..Len(f) /\ g[i] = f[i]
              <7>1. ~(i <= Len(f)) => ~Dirty(g[i])
                BY <1>3, <4>2, <5>2 DEF Dirty
              <7> QED BY <1>3, <4>1, <4>2, <4>3, <5>2, <7>1
            <6> QED BY <1>2, <2>1, <4>3, <6>1 DEF LocalDirt, f
          <5> QED BY <5>1, <5>2
        <4>4. ASSUME NEW p \in Paths, NEW i \in 1..Len(local'[p]), Dirty(local'[p][i])
              PROVE  BlockBit((i - 1) \div kBlockSize) \in bitmap[p]
          <5>1. CASE p = frame.p
            BY <1>2, <4>1, <4>3, <4>4, <5>1
          <5>2. CASE p # frame.p
            BY <1>2, <2>1, <4>1, <4>4, <5>2 DEF LocalDirt
          <5> QED BY <5>1, <5>2
        <4> QED BY <1>1, <4>4 DEF LocalDirt
      <3> QED BY <1>1, <3>1, <3>2
    <2> QED BY <2>2, <2>3
  <1> QED BY <1>1, <1>2, <1>4 DEF DirtInv, JobDirt

(* The steps of a call.                                                    *)
LEMMA CallStepDirt ==
    ASSUME DirtAll, CallStep
    PROVE  DirtInv'
  <1>0. DirtInv /\ DiskInv
    BY DEF DirtAll, TypeAll
  <1>1. CASE Finish
    BY <1>0, <1>1, DirtKept DEF Finish, Return, Idle, index, disk, counts
  <1>2. CASE ReadStore \/ ReadDownload \/ ReadCopy \/ WriteLoad
    <2>1. frame.pc \in {"read", "download", "copy", "write"}
      BY <1>2 DEF ReadStore, ReadDownload, ReadCopy, WriteLoad
    <2>2. frame \in Frame
      BY <1>0, <2>1, InCall
    <2>3. frame'.pc \notin {"fill", "track"} /\ UNCHANGED <<store, local, bitmap, wk, crashes>>
      BY <1>2, <2>2 DEF ReadStore, ReadDownload, ReadCopy, WriteLoad, Frame, index, disk, counts
    <2> QED BY <1>0, <2>1, <2>3, DirtKept
  <1> QED BY <1>1, <1>2, ReadResponseDirt, ReadFillDirt, WriteStoreDirt, WriteMarkDirt,
             WriteTrackDirt DEF CallStep

(* The steps of a prefetch worker, which only ever holds clean cells.      *)
LEMMA PrefetchStepDirt ==
    ASSUME DirtAll, NEW w \in Workers, PrefetchStep(w)
    PROVE  DirtInv'
  <1>0. DirtInv /\ DiskInv /\ SizeInv /\ wk = [v \in Workers |-> wk[v]]
    BY DEF DirtAll, TypeAll, DiskInv, WorkersInv
  <1>1. UNCHANGED <<local, bitmap, frame, crashes>>
    BY DEF PrefetchStep, PrefetchTake, PrefetchDone, PrefetchCheck, PrefetchDownload,
           PrefetchResponse, PrefetchFill, PrefetchTouch, index, disk, counts
  <1>2. ASSUME UNCHANGED store, JobDirt' PROVE DirtInv'
    <2>1. ASSUME crashes' = 0 PROVE StoreDirt' /\ LocalDirt' /\ FrameDirt'
      BY <1>0, <1>1, <1>2, <2>1 DEF DirtInv, StoreDirt, LocalDirt, FrameDirt, Blk, Here
    <2> QED BY <1>2, <2>1 DEF DirtInv
  <1>3. ASSUME NEW j, wk' = [wk EXCEPT ![w] = j],
               j.pc = "fill" => \A i \in 1..Len(j.buf) : ~Dirty(j.buf[i])
        PROVE  JobDirt'
    <2>1. \A v \in Workers : wk'[v] = j \/ wk'[v] = wk[v]
      BY <1>0, <1>3
    <2> QED BY <1>0, <1>3, <2>1 DEF DirtInv, JobDirt
  <1>4. ASSUME Advance(w), wk[w] \in Job PROVE JobDirt'
    <2> DEFINE j == [wk[w] EXCEPT !.pc = "check", !.blk = wk[w].blk + 1,
                                  !.left = wk[w].left - 1, !.buf = <<>>]
    <2>1. wk' = [wk EXCEPT ![w] = j] /\ j.pc = "check"
      BY <1>4 DEF Advance, Job
    <2> HIDE DEF j
    <2> QED BY <1>3, <2>1
  <1>5. ASSUME NEW pc, pc # "fill", wk' = [wk EXCEPT ![w].pc = pc], wk[w] \in Job PROVE JobDirt'
    <2> DEFINE j == [wk[w] EXCEPT !.pc = pc]
    <2>1. wk' = [wk EXCEPT ![w] = j] /\ j.pc = pc
      BY <1>5 DEF Job
    <2> HIDE DEF j
    <2> QED BY <1>3, <1>5, <2>1
  <1>6. CASE PrefetchTake(w)
    <2>0. PICK a \in CopyAt : wk' = [wk EXCEPT ![w] =
              [pc |-> "check", p |-> Head(tasks).p, blk |-> Head(tasks).blk,
               left |-> PREFETCH_WINDOW, buf |-> <<>>, at |-> a]]
      BY <1>6 DEF PrefetchTake
    <2> DEFINE j == [pc |-> "check", p |-> Head(tasks).p, blk |-> Head(tasks).blk,
                     left |-> PREFETCH_WINDOW, buf |-> <<>>, at |-> a]
    <2>1. wk' = [wk EXCEPT ![w] = j] /\ j.pc = "check" /\ UNCHANGED store
      BY <1>6, <2>0 DEF PrefetchTake, disk
    <2> HIDE DEF j
    <2> QED BY <1>2, <1>3, <2>1
  <1>7. CASE PrefetchDone(w)
    <2>1. wk' = [wk EXCEPT ![w] = Idle] /\ Idle.pc = "idle" /\ UNCHANGED store
      BY <1>7 DEF PrefetchDone, disk, Idle
    <2> QED BY <1>2, <1>3, <2>1
  <1>8. CASE PrefetchCheck(w) \/ PrefetchDownload(w) \/ PrefetchTouch(w)
    <2>1. wk[w] \in Job /\ UNCHANGED store
      BY <1>0, <1>8, InJob DEF PrefetchCheck, PrefetchDownload, PrefetchTouch, disk
    <2>2. JobDirt'
      BY <1>4, <1>5, <1>8, <2>1 DEF PrefetchCheck, PrefetchDownload, PrefetchTouch
    <2> QED BY <1>2, <2>1, <2>2
  <1>9. CASE PrefetchResponse(w)
    <2> DEFINE got == download(wk[w].p, wk[w].blk)
               j == [wk[w] EXCEPT !.pc = "fill", !.buf = got]
    <2>1. /\ wk[w] \in Job /\ wk[w].p \in Paths /\ wk[w].blk \in Nat /\ UNCHANGED store
          /\ Advance(w) \/ wk' = [wk EXCEPT ![w] = j]
      BY <1>0, <1>9, InJob DEF PrefetchResponse, disk
    <2>2. \A i \in 1..Len(got) : got[i] = <<0, wk[w].p, Offset(wk[w].blk) + i - 1>>
      BY <2>1, DownloadAt
    <2>3. \A i \in 1..Len(got) : ~Dirty(got[i])
      BY <2>2 DEF Dirty
    <2> HIDE DEF got
    <2>4. j.buf = got
      BY <2>1 DEF Job
    <2> HIDE DEF j
    <2>5. JobDirt'
      BY <1>3, <1>4, <2>1, <2>3, <2>4
    <2> QED BY <1>2, <2>1, <2>5
  <1>10. CASE PrefetchFill(w)
    <2>1. /\ wk[w] \in Job /\ wk[w].p \in Paths /\ wk[w].blk \in Nat /\ wk[w].buf \in Seq(Val)
          /\ wk[w].pc = "fill" /\ StoreWrite(wk[w].p, wk[w].buf, wk[w].blk)
          /\ wk' = [wk EXCEPT ![w].pc = "touch"] /\ Len(wk[w].buf) <= kBlockSize
      BY <1>0, <1>10, InJob DEF PrefetchFill, SizeInv, JobSizes
    <2>2. \A i \in 1..Len(wk[w].buf) : ~Dirty(wk[w].buf[i])
      BY <1>0, <2>1 DEF DirtInv, JobDirt
    <2>3. ASSUME crashes' = 0 PROVE StoreDirt' /\ LocalDirt' /\ FrameDirt'
      <3>1. StoreDirt /\ LocalDirt /\ FrameDirt
        BY <1>0, <1>1, <2>3 DEF DirtInv
      <3>2. StoreDirt'
        BY <1>0, <1>1, <2>1, <2>2, <3>1, StoreWriteDirt
      <3> QED BY <1>1, <3>1, <3>2 DEF LocalDirt, FrameDirt, Blk, Here
    <2>4. JobDirt'
      BY <1>5, <2>1
    <2> QED BY <2>3, <2>4 DEF DirtInv
  <1> QED BY <1>6, <1>7, <1>8, <1>9, <1>10 DEF PrefetchStep

(* Every step keeps dirty blocks marked.                                   *)
LEMMA NextDirt ==
    ASSUME DirtAll, [Next]_vars
    PROVE  DirtInv'
  <1>0. DirtInv /\ DiskInv
    BY DEF DirtAll, TypeAll
  <1>1. CASE UNCHANGED <<store, local, bitmap, wk, frame, crashes>>
    BY <1>0, <1>1, DirtKept
  <1>2. ASSUME NEW op \in {"read", "write"}, NEW p \in Paths, NEW r \in Ranges,
               Begin(op, p, r[1], r[2])
        PROVE  DirtInv'
    <2>1. /\ frame.pc # "mark" /\ frame'.pc \notin {"fill", "track"}
          /\ UNCHANGED <<store, local, bitmap, wk, crashes>>
      BY <1>2 DEF Begin, Free, Idle, disk
    <2> QED BY <1>0, <2>1, DirtKept
  <1>3. CASE FlushAll \/ Cleanup \/ Rest \/ UNCHANGED vars
    BY <1>1, <1>3 DEF FlushAll, Cleanup, Rest, vars, index, disk, counts
  <1>4. ASSUME NEW e \in Evictors, NEW n \in Limits, EvictBegin(e, n)
        PROVE  DirtInv'
    BY <1>1, <1>4 DEF EvictBegin, index, disk
  <1>5. ASSUME NEW e \in Evictors, EvictStep(e)
        PROVE  DirtInv'
    <2>1. CASE EvictCheck(e) \/ EvictPop(e) \/ EvictFlush(e) \/ EvictMark(e)
      BY <1>1, <2>1 DEF EvictCheck, EvictPop, EvictFlush, EvictMark, index, disk, counts
    <2>2. CASE EvictDelete(e)
      <3>1. /\ store' = [store EXCEPT ![ev[e].p] = NoObject]
            /\ UNCHANGED <<local, bitmap, wk, frame, crashes>>
        BY <2>2 DEF EvictDelete, index, counts
      <3>2. \A k \in Parts : Len(NoObject[k]) = 0
        BY DEF NoObject
      <3>3. store = [q \in Paths |-> store[q]]
        BY <1>0 DEF DiskInv, StoreInv
      <3>4. \A q \in Paths : store'[q] = store[q] \/ store'[q] = NoObject
        BY <3>1, <3>3
      <3>5. ASSUME crashes' = 0 PROVE StoreDirt' /\ LocalDirt' /\ FrameDirt'
        <4>1. StoreDirt /\ LocalDirt /\ FrameDirt
          BY <1>0, <3>1, <3>5 DEF DirtInv
        <4>2. StoreDirt'
          BY <3>1, <3>2, <3>4, <4>1 DEF StoreDirt, Blk, Here
        <4> QED BY <3>1, <4>1, <4>2 DEF LocalDirt, FrameDirt, Blk, Here
      <3> QED BY <1>0, <3>1, <3>5 DEF DirtInv, JobDirt
    <2> QED BY <1>5, <2>1, <2>2 DEF EvictStep
  <1>6. CASE Restarted
    <2>1. crashes' # 0
      BY <1>6 DEF Restarted, DirtAll, CountsInv
    <2>2. JobDirt'
      BY <1>6 DEF Restarted, JobDirt, Idle
    <2> QED BY <2>1, <2>2 DEF DirtInv
  <1>7. CASE Flushing
    BY <1>1, <1>7, FlushKeeps
  <1> QED BY <1>2, <1>3, <1>4, <1>5, <1>6, <1>7, CallStepDirt, PrefetchStepDirt
          DEF Next, Crash, EvictDies, Flushing

-----------------------------------------------------------------------------
(* Every object with marked blocks, and that of the call, has an entry.    *)
LEMMA NextKnown ==
    ASSUME DirtAll, [Next]_vars
    PROVE  KnownInv'
  <1>0. /\ KnownInv /\ DiskInv /\ entries \in [Paths -> Entry]
        /\ bitmap \in [Paths -> SUBSET (Parts \X Nat)]
    BY DEF DirtAll, TypeAll, IndexInv
  <1>1. ASSUME UNCHANGED bitmap, \A p \in Paths : entries[p].present => entries'[p].present,
               frame' = Idle \/ (frame # Idle /\ frame'.p = frame.p)
        PROVE  KnownInv'
    BY <1>0, <1>1 DEF KnownInv
  <1>2. CASE UNCHANGED <<bitmap, entries, frame>>
    BY <1>0, <1>2 DEF KnownInv
  <1>3. ASSUME NEW op \in {"read", "write"}, NEW p \in Paths, NEW r \in Ranges,
               Begin(op, p, r[1], r[2])
        PROVE  KnownInv'
    <2>1. /\ entries' = [entries EXCEPT ![p].present = TRUE] /\ UNCHANGED bitmap
          /\ frame' = Idle \/ frame'.p = p
      BY <1>3 DEF Begin
    <2>2. entries'[p].present /\ \A q \in Paths : entries[q].present => entries'[q].present
      BY <1>0, <2>1 DEF Entry
    <2> QED BY <1>0, <2>1, <2>2 DEF KnownInv
  <1>4. CASE CallStep
    <2>1. frame.pc # "idle"
      BY <1>4 DEF CallStep, Finish, ReadStore, ReadDownload, ReadResponse, ReadFill, ReadCopy,
                  WriteLoad, WriteStore, WriteMark, WriteTrack
    <2>2. frame \in Frame /\ frame # Idle /\ frame.p \in Paths
      BY <1>0, <2>1, InCall DEF Idle
    <2>3. frame' = Idle \/ frame'.p = frame.p
      <3>1. CASE ReadResponse
        <4>1. PICK ok \in BOOLEAN :
                \/ frame' = [frame EXCEPT !.block = Fetched(frame.p, Blk, ok), !.pc = "fill"]
                \/ frame' = Idle
          BY <3>1 DEF ReadResponse, Return
        <4>2. CASE frame' = [frame EXCEPT !.block = Fetched(frame.p, Blk, ok), !.pc = "fill"]
          BY <2>2, <4>2 DEF Frame
        <4> QED BY <4>1, <4>2
      <3>2. CASE Finish
        BY <3>2 DEF Finish, Return
      <3>3. CASE ReadStore \/ ReadDownload \/ ReadFill \/ ReadCopy
        BY <2>2, <3>3 DEF ReadStore, ReadDownload, ReadFill, ReadCopy, Frame
      <3>4. CASE WriteLoad \/ WriteStore \/ WriteMark \/ WriteTrack
        BY <2>2, <3>4 DEF WriteLoad, WriteStore, WriteMark, WriteTrack, Frame
      <3> QED BY <1>4, <3>1, <3>2, <3>3, <3>4 DEF CallStep
    <2>4. \A p \in Paths : entries[p].present => entries'[p].present
      <3>1. CASE ReadCopy
        <4>1. entries' = [entries EXCEPT ![frame.p].last = Blk]
          BY <3>1 DEF ReadCopy
        <4> QED BY <1>0, <2>2, <4>1 DEF Entry
      <3>2. CASE ~ReadCopy
        BY <1>4, <3>2 DEF CallStep, Finish, ReadStore, ReadDownload, ReadResponse, ReadFill,
                          WriteLoad, WriteStore, WriteMark, WriteTrack, index
      <3> QED BY <3>1, <3>2
    <2>5. CASE WriteMark
      <3>1. bitmap' = [bitmap EXCEPT ![frame.p] = Marked(@, Blk)]
        BY <2>5 DEF WriteMark
      <3>2. \A p \in Paths : p # frame.p => bitmap'[p] = bitmap[p]
        BY <1>0, <3>1
      <3> QED BY <1>0, <2>2, <2>3, <2>4, <3>2 DEF KnownInv
    <2>6. CASE ~WriteMark
      <3>1. UNCHANGED bitmap
        BY <1>4, <2>6 DEF CallStep, Finish, ReadStore, ReadDownload, ReadResponse, ReadFill, ReadCopy,
                          WriteLoad, WriteStore, WriteTrack, index
      <3> QED BY <1>1, <2>2, <2>3, <2>4, <3>1
    <2> QED BY <2>5, <2>6
  <1>5. CASE FlushAll \/ Cleanup \/ Rest \/ UNCHANGED vars
    BY <1>2, <1>5 DEF FlushAll, Cleanup, Rest, vars, index
  <1>6. ASSUME NEW e \in Evictors, NEW n \in Limits, EvictBegin(e, n)
        PROVE  KnownInv'
    BY <1>2, <1>6 DEF EvictBegin, index
  <1>7. ASSUME NEW e \in Evictors, EvictStep(e)
        PROVE  KnownInv'
    <2>1. CASE EvictCheck(e) \/ EvictPop(e) \/ EvictDelete(e) \/ EvictFlush(e)
      BY <1>2, <2>1 DEF EvictCheck, EvictPop, EvictDelete, EvictFlush, index
    <2>2. CASE EvictMark(e)
      <3>1. /\ entries' = entries \/ entries' = [entries EXCEPT ![ev[e].p].evicted = TRUE]
            /\ UNCHANGED <<bitmap, frame>>
        BY <2>2 DEF EvictMark
      <3>2. \A p \in Paths : entries[p].present => entries'[p].present
        BY <1>0, <3>1 DEF Entry
      <3> QED BY <1>0, <3>1, <3>2 DEF KnownInv
    <2> QED BY <1>7, <2>1, <2>2 DEF EvictStep
  <1>8. ASSUME NEW w \in Workers, PrefetchStep(w)
        PROVE  KnownInv'
    BY <1>2, <1>8 DEF PrefetchStep, PrefetchTake, PrefetchDone, PrefetchCheck, PrefetchDownload,
                      PrefetchResponse, PrefetchFill, PrefetchTouch, index
  <1>9. CASE Restarted
    BY <1>9 DEF Restarted, KnownInv
  <1>10. CASE Flushing
    BY <1>2, <1>10, FlushKeeps
  <1> QED BY <1>3, <1>4, <1>5, <1>6, <1>7, <1>8, <1>9, <1>10 DEF Next, Crash, EvictDies, Flushing

(* The flushes and who runs them.                                          *)

(* The flush records are a function of the flushers.                       *)
LEMMA FlushOf ==
    ASSUME FlushesInv, NEW f \in Evictors \cup {Caller}, NEW r, fl' = [fl EXCEPT ![f] = r]
    PROVE  fl'[f] = r /\ \A g \in Evictors \cup {Caller} : g # f => fl'[g] = fl[g]
  BY DEF FlushesInv

(* An evictor has a flush under way only where it waits for its end.       *)
LEMMA NextFlusher ==
    ASSUME DirtAll, [Next]_vars
    PROVE  FlusherInv'
  <1>0. FlusherInv /\ EvictorsInv /\ FlushesInv /\ ev = [d \in Evictors |-> ev[d]]
    BY DEF DirtAll, SavedInv, TypeAll, EvictorsInv
  <1>1. CASE UNCHANGED <<ev, fl>>
    BY <1>0, <1>1 DEF FlusherInv
  <1>2. CASE FlushAll \/ Cleanup \/ FlushLoop
    <2>1. UNCHANGED ev /\ \E r : fl' = [fl EXCEPT ![Caller] = r]
      BY <1>2 DEF FlushAll, Cleanup, FlushLoop, FlushReturn, FlushNext
    <2>2. \A e \in Evictors : fl'[e] = fl[e]
      BY <1>0, <2>1, FlushOf, CallerAssumption
    <2> QED BY <1>0, <2>1, <2>2 DEF FlusherInv
  <1>3. ASSUME NEW e \in Evictors, NEW n \in Limits, EvictBegin(e, n)
        PROVE  FlusherInv'
    <2>1. ev[e] = Idle /\ UNCHANGED fl /\ \A d \in Evictors : d # e => ev'[d] = ev[d]
      BY <1>0, <1>3 DEF EvictBegin
    <2> QED BY <1>0, <2>1 DEF FlusherInv, Idle
  <1>4. ASSUME NEW e \in Evictors, EvictStep(e)
        PROVE  FlusherInv'
    <2>1. \A d \in Evictors : d # e => ev'[d] = ev[d]
      <3>1. CASE EvictCheck(e) \/ EvictDelete(e) \/ EvictFlush(e) \/ EvictMark(e)
        BY <1>0, <3>1 DEF EvictCheck, EvictDelete, EvictFlush, EvictMark
      <3>2. CASE EvictPop(e)
        BY <1>0, <3>2 DEF EvictPop
      <3> QED BY <1>4, <3>1, <3>2 DEF EvictStep
    <2>2. CASE EvictCheck(e) \/ EvictPop(e)
      BY <1>0, <2>1, <2>2 DEF EvictCheck, EvictPop, FlusherInv
    <2>3. CASE EvictDelete(e)
      <3>1. ev[e].pc = "delete" /\ \A d \in Evictors : fl[d] = NoFlush => fl'[d] = NoFlush
        BY <1>0, <2>3 DEF EvictDelete, FlushesInv, NoFlush
      <3> QED BY <1>0, <2>1, <3>1 DEF FlusherInv
    <2>4. CASE EvictFlush(e)
      <3>1. /\ ev[e].pc = "flush" /\ ev' = [ev EXCEPT ![e].pc = "mark"]
            /\ fl' = [fl EXCEPT ![e] = flushBitmaps(ev[e].p, {})]
        BY <2>4 DEF EvictFlush
      <3>2. DOMAIN ev[e] = {"pc", "limit", "ref", "p"}
        BY <1>0, <3>1 DEF EvictorsInv, EvictInv, Idle
      <3>3. ev'[e].pc = "mark"
        BY <1>0, <3>1, <3>2
      <3>4. \A d \in Evictors : d # e => fl'[d] = fl[d]
        BY <1>0, <3>1, FlushOf
      <3> QED BY <1>0, <2>1, <3>3, <3>4 DEF FlusherInv
    <2>5. CASE EvictMark(e)
      <3>1. fl' = [fl EXCEPT ![e] = NoFlush]
        BY <2>5 DEF EvictMark
      <3>2. fl'[e] = NoFlush /\ \A d \in Evictors : d # e => fl'[d] = fl[d]
        BY <1>0, <3>1, FlushOf
      <3> QED BY <1>0, <2>1, <3>2 DEF FlusherInv
    <2> QED BY <1>4, <2>2, <2>3, <2>4, <2>5 DEF EvictStep
  <1>5. ASSUME NEW f \in Evictors \cup {Caller}, FlushStep(f)
        PROVE  FlusherInv'
    <2>1. fl[f].st \in {"open", "write", "orphan"} /\ UNCHANGED ev
      BY <1>5 DEF FlushStep, PersistWrite, PersistOpen
    <2>2. \E r : fl' = [fl EXCEPT ![f] = r]
      BY <1>5 DEF FlushStep, PersistWrite, PersistOpen
    <2>3. fl[f] # NoFlush /\ \A g \in Evictors \cup {Caller} : g # f => fl'[g] = fl[g]
      BY <1>0, <2>1, <2>2, FlushOf DEF NoFlush
    <2> QED BY <1>0, <2>1, <2>3 DEF FlusherInv
  <1>6. ASSUME NEW op \in {"read", "write"}, NEW p \in Paths, NEW r \in Ranges,
               Begin(op, p, r[1], r[2])
        PROVE  FlusherInv'
    BY <1>1, <1>6 DEF Begin
  <1>7. CASE CallStep
    BY <1>1, <1>7 DEF CallStep, Finish, ReadStore, ReadDownload, ReadResponse, ReadFill, ReadCopy,
                      WriteLoad, WriteStore, WriteMark, WriteTrack
  <1>8. ASSUME NEW w \in Workers, PrefetchStep(w)
        PROVE  FlusherInv'
    BY <1>1, <1>8 DEF PrefetchStep, PrefetchTake, PrefetchDone, PrefetchCheck, PrefetchDownload,
                      PrefetchResponse, PrefetchFill, PrefetchTouch
  <1>9. CASE Restarted
    BY <1>9 DEF Restarted, FlusherInv
  <1>10. CASE Rest \/ UNCHANGED vars
    BY <1>1, <1>10 DEF Rest, vars
  <1> QED BY <1>2, <1>3, <1>4, <1>5, <1>6, <1>7, <1>8, <1>9, <1>10 DEF Next, Crash, EvictDies

(* Only Cleanup leaves the phase in which calls begin.                     *)
LEMMA LeavesUp ==
    ASSUME phase = "up", phase' # "up", [Next]_vars
    PROVE  Cleanup
  <1>1. \A op \in {"read", "write"}, p \in Paths, r \in Ranges :
            Begin(op, p, r[1], r[2]) => UNCHANGED phase
    BY DEF Begin
  <1>2. CallStep => UNCHANGED phase
    BY DEF CallStep, Finish, ReadStore, ReadDownload, ReadResponse, ReadFill, ReadCopy,
           WriteLoad, WriteStore, WriteMark, WriteTrack
  <1>3. FlushAll \/ FlushLoop \/ Rest \/ UNCHANGED vars => UNCHANGED phase
    BY DEF FlushAll, FlushLoop, FlushReturn, FlushNext, Rest, vars
  <1>4. \A e \in Evictors : (\E n \in Limits : EvictBegin(e, n)) \/ EvictStep(e) => UNCHANGED phase
    BY DEF EvictBegin, EvictStep, EvictCheck, EvictPop, EvictDelete, EvictFlush, EvictMark
  <1>5. \A f \in Evictors \cup {Caller} : FlushStep(f) => UNCHANGED phase
    BY DEF FlushStep, PersistWrite, PersistOpen
  <1>6. \A w \in Workers : PrefetchStep(w) => UNCHANGED phase
    BY DEF PrefetchStep, PrefetchTake, PrefetchDone, PrefetchCheck, PrefetchDownload,
           PrefetchResponse, PrefetchFill, PrefetchTouch
  <1>7. Restarted => phase' = "up"
    BY DEF Restarted
  <1> QED BY <1>1, <1>2, <1>3, <1>4, <1>5, <1>6, <1>7 DEF Next, Crash, EvictDies

(* From then on there is only cleanup's own flush, beside the prefetches.  *)
LEMMA CalmSteps ==
    ASSUME Calm, phase # "up", [Next]_vars
    PROVE  \/ Restarted \/ FlushLoop \/ FlushStep(Caller)
           \/ UNCHANGED <<phase, frame, ev, fl, bitmap, dmap>>
  <1>1. \A op \in {"read", "write"}, p \in Paths, r \in Ranges : ~Begin(op, p, r[1], r[2])
    BY DEF Begin
  <1>2. ~CallStep
    <2>1. frame.pc = "idle"
      BY DEF Calm, Idle
    <2> QED BY <2>1 DEF CallStep, Finish, ReadStore, ReadDownload, ReadResponse, ReadFill, ReadCopy,
                        WriteLoad, WriteStore, WriteMark, WriteTrack
  <1>3. ~FlushAll /\ ~Cleanup
    BY DEF FlushAll, Cleanup
  <1>4. ASSUME NEW e \in Evictors
        PROVE  (\A n \in Limits : ~EvictBegin(e, n)) /\ ~EvictStep(e) /\ ~FlushStep(e)
    <2>1. ev[e].pc = "idle" /\ fl[e].st = "none"
      BY DEF Calm, Idle, NoFlush
    <2> QED BY <2>1 DEF EvictBegin, EvictStep, EvictCheck, EvictPop, EvictDelete, EvictFlush,
                        EvictMark, FlushStep, PersistWrite, PersistOpen
  <1>5. Rest \/ UNCHANGED vars => UNCHANGED <<phase, frame, ev, fl, bitmap, dmap>>
    BY DEF Rest, vars, index, disk
  <1>6. \A w \in Workers : PrefetchStep(w) => UNCHANGED <<phase, frame, ev, fl, bitmap, dmap>>
    BY DEF PrefetchStep, PrefetchTake, PrefetchDone, PrefetchCheck, PrefetchDownload,
           PrefetchResponse, PrefetchFill, PrefetchTouch, index, disk
  <1> QED BY <1>1, <1>2, <1>3, <1>4, <1>5, <1>6 DEF Next, Crash, EvictDies

(* cache_cleanup begins with every marked block ahead of it.               *)
LEMMA CleanupSaved ==
    ASSUME DirtAll, Cleanup
    PROVE  CalmInv' /\ ClosingInv' /\ ReleasedInv'
  <1>0. FlusherInv /\ KnownInv /\ FlushesInv /\ bitmap \in [Paths -> SUBSET (Parts \X Nat)]
    BY DEF DirtAll, SavedInv, TypeAll, IndexInv
  <1>1. /\ phase' = "closing" /\ frame = Idle /\ \A e \in Evictors : ev[e] = Idle
        /\ fl' = [fl EXCEPT ![Caller] = flush_all] /\ UNCHANGED <<frame, ev, bitmap, dmap>>
    BY DEF Cleanup, Free, index, disk
  <1>2. fl'[Caller] = flush_all /\ \A e \in Evictors : fl'[e] = fl[e]
    BY <1>0, <1>1, FlushOf, CallerAssumption
  <1>3. Calm'
    BY <1>0, <1>1, <1>2 DEF Calm, FlusherInv, Idle
  <1>4. flush_all.st = "open" /\ flush_all.rest = {p \in Paths : entries[p].present}
    BY DEF flush_all
  <1>5. \A p \in Paths : p \in flush_all.rest \/ bitmap[p] = {}
    BY <1>0, <1>4 DEF KnownInv
  <1>6. ClosingInv'
    BY <1>1, <1>2, <1>4, <1>5 DEF ClosingInv
  <1> QED BY <1>1, <1>3, <1>6 DEF CalmInv, ReleasedInv

(* It goes on to the next entry, or ends, when all before is on disk.      *)
LEMMA FlushLoopSaved ==
    ASSUME DirtAll, phase # "up", FlushLoop
    PROVE  CalmInv' /\ ClosingInv' /\ ReleasedInv'
  <1>0. /\ CalmInv /\ ClosingInv /\ ReleasedInv /\ FlushesInv
        /\ bitmap \in [Paths -> SUBSET (Parts \X Nat)] /\ phase \in {"up", "closing", "released"}
    BY DEF DirtAll, SavedInv, TypeAll, IndexInv
  <1>1. /\ fl[Caller].st = "open" /\ fl[Caller].todo = {}
        /\ UNCHANGED <<frame, ev, bitmap, dmap, faults>>
    BY DEF FlushLoop, FlushReturn, FlushNext, index, disk, counts
  <1>2. phase = "closing" /\ Calm
    BY <1>0, <1>1 DEF ReleasedInv, NoFlush, CalmInv
  <1>3. faults["disk"] = 0 =>
            \A p \in Paths : p \in fl[Caller].rest \/ \A b \in bitmap[p] : b \in dmap[p]
    BY <1>0, <1>1, <1>2 DEF ClosingInv, Ahead
  <1>4. CASE FlushReturn
    <2>1. /\ fl' = [fl EXCEPT ![Caller] = NoFlush] /\ phase' = "released"
          /\ fl[Caller].rest = {}
      BY <1>2, <1>4 DEF FlushReturn
    <2>2. fl'[Caller] = NoFlush /\ \A e \in Evictors : fl'[e] = fl[e]
      BY <1>0, <2>1, FlushOf, CallerAssumption
    <2>3. Calm'
      BY <1>1, <1>2, <2>2 DEF Calm
    <2>4. ReleasedInv'
      BY <1>1, <1>3, <2>1, <2>2 DEF ReleasedInv
    <2> QED BY <2>1, <2>3, <2>4 DEF CalmInv, ClosingInv
  <1>5. ASSUME NEW p \in Paths, FlushNext(p)
        PROVE  CalmInv' /\ ClosingInv' /\ ReleasedInv'
    <2> DEFINE todo == {k \in Parts : BitsOf(p, k) # {}}
               rest == fl[Caller].rest \ {p}
               r == [st |-> "open", p |-> p, todo |-> todo, k |-> 0, bits |-> {}, rest |-> rest]
    <2>1. fl' = [fl EXCEPT ![Caller] = r] /\ UNCHANGED phase
      BY <1>5 DEF FlushNext, flushBitmaps
    <2>2. r.st = "open" /\ r.p = p /\ r.todo = todo /\ r.rest = rest
      OBVIOUS
    <2>3. \A b \in bitmap[p] : b[1] \in todo
      BY <1>0 DEF BitsOf
    <2>4. \A q \in fl[Caller].rest : q = p \/ q \in rest
      OBVIOUS
    <2> HIDE DEF todo, rest, r
    <2>5. fl'[Caller] = r /\ \A e \in Evictors : fl'[e] = fl[e]
      BY <1>0, <2>1, FlushOf, CallerAssumption
    <2>6. Calm'
      BY <1>1, <1>2, <2>5 DEF Calm
    <2>7. ASSUME faults'["disk"] = 0, NEW q \in Paths
          PROVE  q \in r.rest \/ \A b \in bitmap'[q] : b \in dmap'[q] \/ Ahead(q, b)'
      <3>1. \A b \in bitmap[p] : Ahead(p, b)'
        BY <2>2, <2>3, <2>5 DEF Ahead
      <3> QED BY <1>1, <1>3, <2>2, <2>4, <2>7, <3>1
    <2>8. ClosingInv'
      BY <1>1, <2>2, <2>5, <2>7 DEF ClosingInv
    <2> QED BY <1>2, <2>1, <2>6, <2>8 DEF CalmInv, ReleasedInv
  <1> QED BY <1>4, <1>5 DEF FlushLoop

(* Emptying a part's file and writing it again loses no marked block, as   *)
(* long as no file operation fails.                                        *)
LEMMA FlushStepSaved ==
    ASSUME DirtAll, phase # "up", FlushStep(Caller)
    PROVE  CalmInv' /\ ClosingInv' /\ ReleasedInv'
  <1> DEFINE r == fl[Caller]
             q == r.p
  <1>0. /\ CalmInv /\ ClosingInv /\ ReleasedInv /\ FlushesInv /\ CountsInv
        /\ bitmap \in [Paths -> SUBSET (Parts \X Nat)] /\ phase \in {"up", "closing", "released"}
        /\ dmap \in [Paths -> SUBSET (Parts \X Nat)]
    BY DEF DirtAll, SavedInv, TypeAll, IndexInv
  <1>1. r.st \in {"open", "write", "orphan"} /\ UNCHANGED <<phase, frame, ev, bitmap>>
    BY DEF FlushStep, PersistWrite, PersistOpen, index
  <1>2. phase = "closing" /\ Calm /\ r.st \in {"open", "write"}
    BY <1>0, <1>1 DEF ReleasedInv, ClosingInv, NoFlush, CalmInv
  <1>3. r \in Flush /\ ((r.st = "open" /\ r.todo = {}) \/ r.p \in Paths)
    <2>1. FlushInv(fl[Caller])
      BY <1>0 DEF FlushesInv
    <2>2. fl[Caller] # NoFlush
      BY <1>1 DEF NoFlush
    <2> QED BY <2>1, <2>2, Zenon DEF FlushInv
  <1>4. ASSUME NEW new, fl' = [fl EXCEPT ![Caller] = new], new.st \in {"open", "write"},
               new.st = "write" => \A b \in bitmap[new.p] : b[1] = new.k => b \in new.bits,
               faults'["disk"] = 0 =>
                 /\ faults["disk"] = 0 /\ new.rest = r.rest
                 /\ \A p \in Paths : \A b \in bitmap[p] :
                      \/ b \in dmap[p]
                      \/ q = p /\ (b[1] \in r.todo \/ (r.st = "write" /\ b \in r.bits))
                      => \/ b \in dmap'[p]
                         \/ new.p = p /\ (b[1] \in new.todo \/ (new.st = "write" /\ b \in new.bits))
        PROVE  CalmInv' /\ ClosingInv' /\ ReleasedInv'
    <2> HIDE DEF r, q
    <2>1. fl'[Caller] = new /\ \A e \in Evictors : fl'[e] = fl[e]
      BY <1>0, <1>4, FlushOf, CallerAssumption
    <2>2. Calm'
      BY <1>1, <1>2, <2>1 DEF Calm
    <2>3. ClosingInv'
      <3>1. ASSUME faults'["disk"] = 0, NEW p \in Paths
            PROVE  p \in new.rest \/ \A b \in bitmap[p] : b \in dmap'[p] \/ Ahead(p, b)'
        <4>1. p \in r.rest \/ \A b \in bitmap[p] : b \in dmap[p] \/ Ahead(p, b)
          BY <1>0, <1>2, <1>4, <3>1 DEF ClosingInv, r
        <4> QED BY <1>4, <2>1, <3>1, <4>1 DEF Ahead, r, q
      <3> QED BY <1>1, <1>4, <2>1, <3>1 DEF ClosingInv
    <2> QED BY <1>1, <1>2, <2>2, <2>3 DEF CalmInv, ReleasedInv
  <1>5. ASSUME NEW k \in Parts, PersistOpen(Caller, k)
        PROVE  CalmInv' /\ ClosingInv' /\ ReleasedInv'
    <2> DEFINE less == r.todo \ {k}
               bits == BitsOf(q, k)
               a == [r EXCEPT !.todo = less]
               b == [a EXCEPT !.st = "write", !.k = k, !.bits = bits]
    <2>0. q \in Paths
      <3>1. k \in r.todo
        BY <1>5 DEF PersistOpen
      <3> QED BY <1>3, <3>1
    <2>1. /\ r.st = "open"
          /\ \/ /\ Fine /\ dmap' = [dmap EXCEPT ![q] = {d \in @ : d[1] # k}]
                /\ fl' = [fl EXCEPT ![Caller] = b]
             \/ Fault("disk") /\ fl' = [fl EXCEPT ![Caller] = a]
      BY <1>5, Zenon DEF PersistOpen
    <2>2. /\ \A x \in bitmap[q] : x[1] = k => x \in bits
          /\ \A i \in r.todo : i = k \/ i \in less
      BY DEF BitsOf
    <2> HIDE DEF r, q, less, bits
    <2>3. a.st = r.st /\ a.p = r.p /\ a.rest = r.rest /\ DOMAIN a = DOMAIN r /\ a.todo = less
      BY <1>3 DEF Flush
    <2>4. /\ b.st = "write" /\ b.p = r.p /\ b.rest = r.rest /\ b.k = k /\ b.bits = bits
          /\ b.todo = less
      BY <1>3, <2>3 DEF Flush
    <2> HIDE DEF a, b
    <2>5. CASE Fault("disk") /\ fl' = [fl EXCEPT ![Caller] = a]
      <3>1. faults'["disk"] # 0
        BY <1>0, <2>5, FaultCounts
      <3> QED BY <1>4, <2>1, <2>3, <2>5, <3>1
    <2>6. CASE /\ Fine /\ dmap' = [dmap EXCEPT ![q] = {d \in @ : d[1] # k}]
               /\ fl' = [fl EXCEPT ![Caller] = b]
      <3>1. UNCHANGED faults
        BY <2>6 DEF Fine
      <3>2. ASSUME NEW p \in Paths, NEW x \in bitmap[p],
                   x \in dmap[p] \/ (q = p /\ x[1] \in r.todo)
            PROVE  x \in dmap'[p] \/ (b.p = p /\ (x[1] \in b.todo \/ x \in b.bits))
        <4>1. CASE p # q
          <5>1. dmap'[p] = dmap[p]
            BY <1>0, <2>6, <4>1
          <5> QED BY <3>2, <4>1, <5>1
        <4>2. CASE p = q
          <5>1. dmap'[q] = {d \in dmap[q] : d[1] # k}
            BY <1>0, <2>0, <2>6
          <5> QED BY <2>2, <2>4, <3>2, <4>2, <5>1 DEF q
        <4> QED BY <4>1, <4>2
      <3> QED BY <1>4, <2>1, <2>2, <2>4, <2>6, <3>1, <3>2 DEF q
    <2> QED BY <2>1, <2>5, <2>6
  <1>6. CASE PersistWrite(Caller)
    <2> DEFINE new == [r EXCEPT !.st = "open", !.k = 0, !.bits = {}]
    <2>0. q \in Paths /\ r.st = "write" /\ fl' = [fl EXCEPT ![Caller] = new]
      <3>1. r.st = "write" /\ fl' = [fl EXCEPT ![Caller] = new]
        BY <1>2, <1>6 DEF PersistWrite
      <3> QED BY <1>3, <3>1
    <2>1. \/ Fine /\ dmap' = [dmap EXCEPT ![q] = Overlaid(@, r.k, r.bits)]
          \/ Fault("disk")
      BY <1>6, <2>0 DEF PersistWrite
    <2>2. \A x \in bitmap[q] : x[1] = r.k => x \in r.bits
      BY <1>0, <1>2, <2>0 DEF ClosingInv
    <2> HIDE DEF r, q
    <2>3. new.st = "open" /\ new.p = r.p /\ new.rest = r.rest /\ new.todo = r.todo
      BY <1>3 DEF Flush
    <2> HIDE DEF new
    <2>4. CASE Fault("disk")
      <3>1. faults'["disk"] # 0
        BY <1>0, <2>4, FaultCounts
      <3> QED BY <1>4, <2>0, <2>3, <3>1
    <2>5. CASE Fine /\ dmap' = [dmap EXCEPT ![q] = Overlaid(@, r.k, r.bits)]
      <3>1. UNCHANGED faults
        BY <2>5 DEF Fine
      <3>2. ASSUME NEW p \in Paths, NEW x \in bitmap[p],
                   x \in dmap[p] \/ (q = p /\ (x[1] \in r.todo \/ x \in r.bits))
            PROVE  x \in dmap'[p] \/ (new.p = p /\ x[1] \in new.todo)
        <4>1. CASE p # q
          <5>1. dmap'[p] = dmap[p]
            BY <1>0, <2>5, <4>1
          <5> QED BY <3>2, <4>1, <5>1
        <4>2. CASE p = q
          <5>1. dmap'[q] = Overlaid(dmap[q], r.k, r.bits)
            BY <1>0, <2>0, <2>5
          <5> QED BY <2>2, <2>3, <3>2, <4>2, <5>1 DEF Overlaid, q
        <4> QED BY <4>1, <4>2
      <3> QED BY <1>4, <2>0, <2>3, <3>1, <3>2
    <2> QED BY <2>1, <2>4, <2>5
  <1> QED BY <1>5, <1>6 DEF FlushStep

(* From cache_cleanup on, marked blocks are on disk or ahead of its flush. *)
LEMMA NextSaved ==
    ASSUME DirtAll, [Next]_vars
    PROVE  SavedInv'
  <1>1. FlusherInv'
    BY NextFlusher
  <1>2. faults'["disk"] = 0 => faults["disk"] = 0
    BY NextCounts DEF DirtAll
  <1>3. CASE phase' = "up"
    BY <1>1, <1>3 DEF SavedInv, CalmInv, ClosingInv, ReleasedInv
  <1>4. CASE phase = "up" /\ phase' # "up"
    BY <1>1, <1>4, LeavesUp, CleanupSaved DEF SavedInv
  <1>5. CASE phase # "up" /\ phase' # "up"
    <2>1. Calm /\ CalmInv /\ ClosingInv /\ ReleasedInv
      BY <1>5 DEF DirtAll, SavedInv, CalmInv
    <2>2. ~Restarted
      BY <1>5 DEF Restarted
    <2>3. CASE FlushLoop \/ FlushStep(Caller)
      BY <1>1, <1>5, <2>3, FlushLoopSaved, FlushStepSaved DEF SavedInv
    <2>4. CASE UNCHANGED <<phase, frame, ev, fl, bitmap, dmap>>
      <3>1. CalmInv' /\ ReleasedInv'
        BY <1>2, <2>1, <2>4 DEF CalmInv, Calm, ReleasedInv
      <3>2. ClosingInv'
        BY <1>2, <2>1, <2>4 DEF ClosingInv, Ahead
      <3> QED BY <1>1, <3>1, <3>2 DEF SavedInv
    <2> QED BY <1>5, <2>1, <2>2, <2>3, <2>4, CalmSteps
  <1> QED BY <1>3, <1>4, <1>5

(* Initially nothing is dirty.                                             *)
LEMMA InitDirt == Init => DirtAll
  <1> SUFFICES ASSUME Init PROVE DirtAll
    OBVIOUS
  <1>1. TypeAll /\ CountsInv
    BY InitTypes DEF Init, CountsInv
  <1>2. StoreDirt
    BY DEF Init, StoreDirt, NoObject
  <1>3. LocalDirt
    BY DEF Init, LocalDirt
  <1>4. FrameDirt /\ JobDirt
    BY DEF Init, FrameDirt, JobDirt, Idle
  <1>5. KnownInv /\ SavedInv
    BY DEF Init, KnownInv, SavedInv, FlusherInv, CalmInv, ClosingInv, ReleasedInv
  <1> QED BY <1>1, <1>2, <1>3, <1>4, <1>5 DEF DirtAll, DirtInv

(* The invariant is inductive.                                             *)
LEMMA NextDirtAll == DirtAll /\ [Next]_vars => DirtAll'
  <1> SUFFICES ASSUME DirtAll, [Next]_vars PROVE DirtAll'
    OBVIOUS
  <1>1. TypeAll' /\ CountsInv'
    BY NextTypes, NextCounts DEF DirtAll
  <1> QED BY <1>1, NextDirt, NextKnown, NextSaved DEF DirtAll

(* It is strong enough.                                                    *)
LEMMA DirtIsSaved == DirtAll => DirtyIsPersisted
  <1> SUFFICES ASSUME DirtAll, phase = "released", crashes = 0, faults["disk"] = 0,
                      NEW p \in Paths, NEW k \in Parts, NEW i \in 1..Len(store[p][k]),
                      Dirty(store[p][k][i])
               PROVE  BitAt(k, i) \in dmap[p]
    BY DEF DirtyIsPersisted, Dirty, BitAt
  <1>1. frame = Idle /\ bitmap[p] \subseteq dmap[p]
    BY DEF DirtAll, SavedInv, CalmInv, ReleasedInv, Calm
  <1>2. BitAt(k, i) \in bitmap[p]
    BY <1>1 DEF DirtAll, DirtInv, StoreDirt, Idle
  <1> QED BY <1>1, <1>2

(* After the cache_cleanup that ends main, the bitmaps on disk name every  *)
(* stored block with written data, whatever was deleted under running      *)
(* writes and however flushes of the same part overtook each other before  *)
(* (cache_manager.cc:148, 163, 179; metadata_store.cc:222-231).            *)
THEOREM DirtyBlocksAreSaved == Spec => []DirtyIsPersisted
  <1>1. Init => DirtAll
    BY InitDirt
  <1>2. DirtAll /\ [Next]_vars => DirtAll'
    BY NextDirtAll
  <1>3. DirtAll => DirtyIsPersisted
    BY DirtIsSaved
  <1> QED BY <1>1, <1>2, <1>3, PTL DEF Spec


-----------------------------------------------------------------------------
(* Read-your-writes for a CacheManager that does not prefetch.  With a     *)
(* window of one block or more the property is false, a late fill may      *)
(* overtake a write: that is what the run cache_prefetch_race shows.       *)
(*                                                                         *)
(* The inductive invariant.  A cell is fresh when it was written since its *)
(* object was last deleted.  The block of a fresh cell is in the store as a*)
(* whole, so that a read finds it there and never replaces it, and what the*)
(* call in progress holds of a fresh cell is its last write.               *)

Fresh(p, c) == latest[p][c] > since[p]
Last(p, c) == <<latest[p][c], p, c>>
Cell(blk, i) == Offset(blk) + (i - 1)

HistInv ==
    /\ latest \in [Paths -> [Cells -> Nat]]
    /\ since \in [Paths -> Nat]
    /\ \A p \in Paths : since[p] <= writes /\ \A c \in Cells : latest[p][c] <= writes

\* Without a window a worker that took a task has nothing to do.
StillInv == \A w \in Workers : wk[w] = Idle \/ (wk[w].pc = "check" /\ wk[w].left = 0)

OpInv ==
    frame # Idle =>
        /\ ret = NoRet
        /\ frame.op = IF frame.pc \in {"write", "store", "mark", "track"} THEN "write" ELSE "read"

FreshStore ==
    \A p \in Paths, blk \in Nat, i \in 1..kBlockSize :
        Cell(blk, i) \in Cells /\ Fresh(p, Cell(blk, i)) =>
            /\ Len(readBlock(store[p], Offset(blk))) = kBlockSize
            /\ readBlock(store[p], Offset(blk))[i] = Last(p, Cell(blk, i))

InChunk(i) == i > In /\ i <= In + Want

FreshFrame ==
    /\ frame.pc \in {"download", "response", "fill"} =>
         \A i \in 1..kBlockSize : ~Fresh(frame.p, Cell(Blk, i))
    /\ frame.pc = "copy" =>
         \A i \in 1..kBlockSize :
            Fresh(frame.p, Cell(Blk, i)) =>
                i <= Len(frame.block) /\ frame.block[i] = Last(frame.p, Cell(Blk, i))
    /\ frame.pc = "store" =>
         /\ Len(frame.block) = kBlockSize
         /\ \A i \in 1..kBlockSize :
              /\ InChunk(i) => frame.block[i] = <<writes, frame.p, Cell(Blk, i)>>
              /\ ~InChunk(i) /\ Fresh(frame.p, Cell(Blk, i)) =>
                    frame.block[i] = Last(frame.p, Cell(Blk, i))

\* Data read for p from offset off on is right.
ReadRight(data, p, off) ==
    \A i \in 1..Len(data) : Fresh(p, off + (i - 1)) => data[i] = Last(p, off + (i - 1))

FreshOut ==
    frame # Idle /\ frame.op = "read" =>
        Len(frame.out) = frame.done /\ ReadRight(frame.out, frame.p, frame.off)

FreshRet ==
    ret.op = "read" =>
        /\ ret.p \in Paths /\ \A i \in 1..Len(ret.data) : ret.off + (i - 1) \in Cells
        /\ ReadRight(ret.data, ret.p, ret.off)

FreshInv == faults["disk"] = 0 => FreshStore /\ FreshFrame /\ FreshOut /\ FreshRet

FreshAll == TypeAll /\ CountsInv /\ HistInv /\ StillInv /\ OpInv /\ FreshInv

-----------------------------------------------------------------------------
(* What a write to the store does to the blocks that are read from it.     *)

Object == [Parts -> Seq(Val)]

(* A file after a pwrite is a sequence of cells.                           *)
LEMMA PwriteVal ==
    ASSUME NEW f \in Seq(Val), NEW data \in Seq(Val), NEW off \in Nat
    PROVE  pwrite(f, data, off) \in Seq(Val)
  <1>1. Zero \in Val
    BY DEF Val
  <1> QED BY <1>1, PwriteSeq

(* A block that was written as a whole reads back.                         *)
LEMMA ReadBack ==
    ASSUME NEW obj \in Object, NEW blk \in Nat, PartOf(Offset(blk)) \in Parts,
           NEW data \in Seq(Val), Len(data) = kBlockSize
    PROVE  /\ Len(readBlock(write(obj, data, Offset(blk)), Offset(blk))) = kBlockSize
           /\ \A i \in 1..kBlockSize :
                readBlock(write(obj, data, Offset(blk)), Offset(blk))[i] = data[i]
  <1> DEFINE k == PartOf(Offset(blk))
             j == InPart(Offset(blk))
             f == obj[k]
             g == pwrite(f, data, j)
             r == pread(g, kBlockSize, j)
  <1>1. j \in Nat /\ f \in Seq(Val) /\ kBlockSize \in Nat /\ kBlockSize > 0
    <2>1. j \in Nat
      BY OffsetNat, PartArithmetic
    <2>2. f \in Seq(Val)
      <3> HIDE DEF k
      <3> QED BY DEF Object, k
    <2> QED BY <2>1, <2>2, LayoutAssumption
  <1>2. readBlock(write(obj, data, Offset(blk)), Offset(blk)) = r
    <2>1. write(obj, data, Offset(blk))[k] = g
      BY DEF write, Object
    <2> QED BY <2>1 DEF readBlock
  <1> HIDE DEF k, j, f
  <1>3. data # <<>>
    BY <1>1
  <1>4. /\ Len(g) \in Nat /\ j + kBlockSize <= Len(g)
        /\ \A i \in 1..kBlockSize : g[j + i] = data[i]
    <2>1. /\ Len(g) \in Nat /\ j + Len(data) <= Len(g)
          /\ \A i \in 1..Len(data) : g[j + i] = data[i]
      BY <1>1, <1>3, PwriteAt
    <2> QED BY <2>1
  <1>5. g \in Seq(Val)
    BY <1>1, PwriteVal
  <1> HIDE DEF g
  <1>6. /\ Len(r) \in Nat /\ Len(r) <= kBlockSize
        /\ \A i \in 1..Len(r) : r[i] = g[j + i]
        /\ \A i \in 1..kBlockSize : j + i <= Len(g) => i \in 1..Len(r)
    BY <1>1, <1>5, PreadAt
  <1> HIDE DEF r
  <1>7. kBlockSize \in 1..Len(r)
    BY <1>1, <1>4, <1>6
  <1>8. Len(r) = kBlockSize
    BY <1>1, <1>6, <1>7
  <1> QED BY <1>2, <1>4, <1>6, <1>8

(* Two blocks of one part do not overlap.                                  *)
LEMMA BlocksApart ==
    ASSUME NEW a \in Nat, NEW b \in Nat, a # b, PartOf(Offset(a)) = PartOf(Offset(b))
    PROVE  \/ InPart(Offset(a)) + kBlockSize <= InPart(Offset(b))
           \/ InPart(Offset(b)) + kBlockSize <= InPart(Offset(a))
  <1> DEFINE k == PartOf(Offset(a))
             base == k * kMaxPartSize
             i == InPart(Offset(a))
             j == InPart(Offset(b))
             s == kBlockSize
  <1>1. /\ k \in Nat /\ i \in Nat /\ j \in Nat /\ s \in Nat /\ kMaxPartSize \in Nat
        /\ base + i = Offset(a) /\ base + j = Offset(b)
    BY OffsetNat, PartArithmetic, LayoutAssumption
  <1>2. base \in Nat
    <2> HIDE DEF k
    <2> QED BY <1>1
  <1>3. base + i = a * s /\ base + j = b * s
    BY <1>1 DEF Offset
  <1> HIDE DEF base, i, j, s
  <1>4. CASE a < b
    <2>1. a * s + s <= b * s /\ a * s \in Int /\ b * s \in Int
      BY <1>1, <1>4, MultipleStep
    <2>2. i + s <= j
      BY <1>1, <1>2, <1>3, <2>1
    <2> QED BY <2>2 DEF i, j, s
  <1>5. CASE b < a
    <2>1. b * s + s <= a * s /\ a * s \in Int /\ b * s \in Int
      BY <1>1, <1>5, MultipleStep
    <2>2. j + s <= i
      BY <1>1, <1>2, <1>3, <2>1
    <2> QED BY <2>2 DEF i, j, s
  <1> QED BY <1>4, <1>5

(* A write of at most a block leaves another block that is there as a whole*)
(* as it was.                                                              *)
LEMMA OtherBlock ==
    ASSUME NEW obj \in Object, NEW blk \in Nat, NEW data \in Seq(Val), Len(data) <= kBlockSize,
           NEW b \in Nat, b # blk, PartOf(Offset(b)) \in Parts,
           Len(readBlock(obj, Offset(b))) = kBlockSize
    PROVE  /\ Len(readBlock(write(obj, data, Offset(blk)), Offset(b))) = kBlockSize
           /\ \A i \in 1..kBlockSize :
                readBlock(write(obj, data, Offset(blk)), Offset(b))[i] = readBlock(obj, Offset(b))[i]
  <1> DEFINE k == PartOf(Offset(blk))
             j == InPart(Offset(blk))
             l == PartOf(Offset(b))
             n == InPart(Offset(b))
             f == obj[k]
             g == pwrite(f, data, j)
             old == pread(f, kBlockSize, n)
             new == pread(g, kBlockSize, n)
  <1>1. j \in Nat /\ n \in Nat /\ kBlockSize \in Nat /\ kBlockSize > 0
    <2>1. j \in Nat /\ n \in Nat
      BY OffsetNat, PartArithmetic
    <2> QED BY <2>1, LayoutAssumption
  <1>2. write(obj, data, Offset(blk)) = [obj EXCEPT ![k] = g]
    BY DEF write
  <1>3. CASE l # k
    <2>1. [obj EXCEPT ![k] = g][l] = obj[l]
      <3> HIDE DEF l, k, g
      <3> QED BY <1>3 DEF Object, l
    <2>2. readBlock([obj EXCEPT ![k] = g], Offset(b)) = readBlock(obj, Offset(b))
      <3> HIDE DEF g, k
      <3> QED BY <2>1 DEF readBlock
    <2> QED BY <1>2, <2>2
  <1>4. CASE l = k
    <2>1. f \in Seq(Val) /\ [obj EXCEPT ![k] = g][l] = g /\ obj[l] = f
      <3> HIDE DEF g, k
      <3> QED BY <1>4 DEF Object
    <2>2. readBlock(obj, Offset(b)) = old /\ readBlock([obj EXCEPT ![k] = g], Offset(b)) = new
      <3> HIDE DEF g, f, k
      <3> QED BY <2>1 DEF readBlock
    <2>3. n + kBlockSize <= j \/ j + kBlockSize <= n
      BY <1>4, BlocksApart
    <2>10. j \in Nat /\ n \in Nat /\ kBlockSize \in Nat /\ f \in Seq(Val) /\ data \in Seq(Val)
      BY <1>1, <2>1
    <2> HIDE DEF k, j, l, n, f
    <2>4. /\ Len(g) \in Nat /\ Len(f) <= Len(g) /\ g \in Seq(Val)
          /\ \A i \in 1..Len(f) : ~(i > j /\ i <= j + Len(data)) => g[i] = f[i]
      <3>1. g \in Seq(Val)
        BY ONLY <2>10, PwriteVal
      <3>2. /\ Len(g) \in Nat /\ Len(f) <= Len(g)
            /\ \A i \in 1..Len(f) : ~(i > j /\ i <= j + Len(data)) => g[i] = f[i]
        BY ONLY <2>10, PwriteAt
      <3> QED BY <3>1, <3>2
    <2> HIDE DEF g
    <2>5. /\ Len(old) = kBlockSize
          /\ \A i \in 1..kBlockSize : n + i \in 1..Len(f) /\ old[i] = f[n + i]
      <3>1. \A i \in 1..Len(old) : n + i \in 1..Len(f) /\ old[i] = f[n + i]
        BY ONLY <2>10, PreadAt
      <3> QED BY <2>2, <3>1
    <2>6. \A i \in 1..kBlockSize : n + i \in 1..Len(g) /\ g[n + i] = f[n + i]
      <3> SUFFICES ASSUME NEW i \in 1..kBlockSize
                   PROVE  n + i \in 1..Len(g) /\ g[n + i] = f[n + i]
        OBVIOUS
      <3>1. n + i \in 1..Len(f) /\ ~(n + i > j /\ n + i <= j + Len(data))
        BY <1>1, <2>3, <2>5
      <3> QED BY <1>1, <2>1, <2>4, <3>1
    <2>7. /\ Len(new) \in Nat /\ Len(new) <= kBlockSize
          /\ \A i \in 1..Len(new) : new[i] = g[n + i]
          /\ \A i \in 1..kBlockSize : n + i <= Len(g) => i \in 1..Len(new)
      <3>1. g \in Seq(Val) /\ kBlockSize \in Nat /\ n \in Nat
        BY <1>1, <2>4
      <3> QED BY ONLY <3>1, PreadAt
    <2> HIDE DEF old, new
    <2>8. kBlockSize \in 1..Len(new)
      BY <1>1, <2>4, <2>6, <2>7
    <2>9. Len(new) = kBlockSize
      BY <1>1, <2>7, <2>8
    <2> QED BY <1>2, <2>2, <2>5, <2>6, <2>7, <2>9
  <1> QED BY <1>3, <1>4

(* The cells of a block among the cells, and their block.                  *)
LEMMA CellFacts ==
    ASSUME NEW blk \in Nat, NEW i \in 1..kBlockSize
    PROVE  /\ Cell(blk, i) \in Nat
           /\ Cell(blk, i) \in Cells => PartOf(Offset(blk)) \in Parts
  <1>1. Offset(blk) \in Nat /\ i - 1 \in Nat
    BY OffsetNat, LayoutAssumption
  <1>2. Cell(blk, i) \in Nat /\ Offset(blk) <= Cell(blk, i)
    BY <1>1 DEF Cell
  <1>3. \A c \in Cells, d \in Nat : d <= c => d \in Cells
    BY LayoutAssumption DEF Cells
  <1> QED BY <1>1, <1>2, <1>3, PartInRange

(* A cell is in one block only.                                            *)
LEMMA CellBlock ==
    ASSUME NEW a \in Nat, NEW i \in 1..kBlockSize, NEW b \in Nat, NEW j \in 1..kBlockSize,
           Cell(a, i) = Cell(b, j)
    PROVE  a = b /\ i = j
  <1>1. /\ Offset(a) \in Nat /\ Offset(b) \in Nat /\ kBlockSize \in Nat
        /\ i \in Nat /\ j \in Nat /\ i >= 1 /\ j >= 1 /\ i <= kBlockSize /\ j <= kBlockSize
    BY OffsetNat, LayoutAssumption
  <1> DEFINE c == Cell(a, i)
  <1>2. /\ c \in Nat /\ Offset(a) <= c /\ c < Offset(a) + kBlockSize
        /\ Offset(b) <= c /\ c < Offset(b) + kBlockSize
    BY <1>1 DEF Cell
  <1> HIDE DEF c
  <1>3. c \div kBlockSize = a /\ c \div kBlockSize = b
    BY <1>2, BlockOfCell
  <1>4. a = b
    BY <1>3
  <1> QED BY <1>1, <1>4 DEF Cell

-----------------------------------------------------------------------------
(* The history, the workers, and who is in a call.                         *)

(* The history refers to writes that were made.                            *)
LEMMA NextHist ==
    ASSUME DiskInv, HistInv, [Next]_vars
    PROVE  HistInv'
  <1>0. writes \in Nat
    BY DEF DiskInv
  <1>1. CASE UNCHANGED <<latest, since, writes>>
    BY <1>1 DEF HistInv
  <1>2. ASSUME NEW op \in {"read", "write"}, NEW p \in Paths, NEW r \in Ranges,
               Begin(op, p, r[1], r[2])
        PROVE  HistInv'
    <2>1. UNCHANGED <<latest, since>> /\ (writes' = writes \/ writes' = writes + 1)
      BY <1>2 DEF Begin, history
    <2> QED BY <1>0, <2>1 DEF HistInv
  <1>3. CASE WriteStore
    <2>1. /\ latest' = [latest EXCEPT ![frame.p] =
                          [c \in Cells |-> IF c >= Here /\ c < Here + Want THEN writes ELSE @[c]]]
          /\ UNCHANGED <<since, writes>> /\ frame.pc = "store"
      BY <1>3 DEF WriteStore
    <2>2. frame.p \in Paths
      BY <2>1, InCall
    <2> QED BY <1>0, <2>1, <2>2 DEF HistInv
  <1>4. CASE CallStep /\ ~WriteStore
    BY <1>1, <1>4 DEF CallStep, Finish, ReadStore, ReadDownload, ReadResponse, ReadFill, ReadCopy,
                      WriteLoad, WriteMark, WriteTrack, history, counts
  <1>5. CASE FlushAll \/ Cleanup \/ Rest \/ Restarted \/ UNCHANGED vars
    BY <1>1, <1>5 DEF FlushAll, Cleanup, Rest, Restarted, vars, history, counts
  <1>6. ASSUME NEW e \in Evictors, NEW n \in Limits, EvictBegin(e, n)
        PROVE  HistInv'
    BY <1>1, <1>6 DEF EvictBegin, history
  <1>7. ASSUME NEW e \in Evictors, EvictStep(e)
        PROVE  HistInv'
    <2>1. CASE EvictCheck(e) \/ EvictPop(e) \/ EvictFlush(e) \/ EvictMark(e)
      BY <1>1, <2>1 DEF EvictCheck, EvictPop, EvictFlush, EvictMark, history, counts
    <2>2. CASE EvictDelete(e)
      <3>1. since' = [since EXCEPT ![ev[e].p] = writes] /\ UNCHANGED <<latest, writes>>
        BY <2>2 DEF EvictDelete, counts
      <3> DEFINE q == ev[e].p
      <3>2. since' = [since EXCEPT ![q] = writes]
        BY <3>1
      <3> HIDE DEF q
      <3>3. since' \in [Paths -> Nat] /\ \A p \in Paths : since'[p] = since[p] \/ since'[p] = writes
        BY <1>0, <3>2 DEF HistInv
      <3> QED BY <1>0, <3>1, <3>3 DEF HistInv
    <2> QED BY <1>7, <2>1, <2>2 DEF EvictStep
  <1>8. ASSUME NEW w \in Workers, PrefetchStep(w)
        PROVE  HistInv'
    BY <1>1, <1>8 DEF PrefetchStep, PrefetchTake, PrefetchDone, PrefetchCheck, PrefetchDownload,
                      PrefetchResponse, PrefetchFill, PrefetchTouch, history, counts
  <1>9. CASE Flushing
    BY <1>1, <1>9, FlushKeeps
  <1> QED BY <1>2, <1>3, <1>4, <1>5, <1>6, <1>7, <1>8, <1>9 DEF Next, Crash, EvictDies, Flushing

(* Without a window no worker gets beyond the head of its loop.            *)
LEMMA NextStill ==
    ASSUME PREFETCH_WINDOW = 0, DiskInv, StillInv, [Next]_vars
    PROVE  StillInv'
  <1>1. CASE UNCHANGED wk
    BY <1>1 DEF StillInv
  <1>2. ASSUME NEW w \in Workers, PrefetchStep(w)
        PROVE  StillInv'
    <2>1. wk = [v \in Workers |-> wk[v]]
      BY DEF DiskInv, WorkersInv
    <2>2. CASE PrefetchTake(w)
      <3>0. PICK a \in CopyAt : wk' = [wk EXCEPT ![w] =
                [pc |-> "check", p |-> Head(tasks).p, blk |-> Head(tasks).blk,
                 left |-> PREFETCH_WINDOW, buf |-> <<>>, at |-> a]]
        BY <2>2 DEF PrefetchTake
      <3> DEFINE j == [pc |-> "check", p |-> Head(tasks).p, blk |-> Head(tasks).blk,
                       left |-> PREFETCH_WINDOW, buf |-> <<>>, at |-> a]
      <3>1. wk' = [wk EXCEPT ![w] = j]
        BY <3>0
      <3>2. j.pc = "check" /\ j.left = 0
        OBVIOUS
      <3> HIDE DEF j
      <3>3. \A v \in Workers : wk'[v] = j \/ wk'[v] = wk[v]
        BY <2>1, <3>1
      <3> QED BY <3>2, <3>3 DEF StillInv
    <2>3. CASE PrefetchDone(w)
      <3>1. \A v \in Workers : wk'[v] = Idle \/ wk'[v] = wk[v]
        BY <2>1, <2>3 DEF PrefetchDone
      <3> QED BY <3>1 DEF StillInv
    <2>4. wk[w].pc \in {"idle", "check"} /\ (wk[w].pc = "check" => wk[w].left = 0)
      BY DEF StillInv, Idle
    <2>5. ~(PrefetchCheck(w) \/ PrefetchDownload(w) \/ PrefetchResponse(w) \/ PrefetchFill(w)
            \/ PrefetchTouch(w))
      BY <2>4 DEF PrefetchCheck, PrefetchDownload, PrefetchResponse, PrefetchFill, PrefetchTouch
    <2> QED BY <1>2, <2>2, <2>3, <2>5 DEF PrefetchStep
  <1>3. CASE CallStep
    BY <1>1, <1>3 DEF CallStep, Finish, ReadStore, ReadDownload, ReadResponse, ReadFill, ReadCopy,
                      WriteLoad, WriteStore, WriteMark, WriteTrack
  <1>4. ASSUME NEW op \in {"read", "write"}, NEW p \in Paths, NEW r \in Ranges,
               Begin(op, p, r[1], r[2])
        PROVE  StillInv'
    BY <1>1, <1>4 DEF Begin
  <1>5. CASE FlushAll \/ Cleanup \/ Rest \/ UNCHANGED vars
    BY <1>1, <1>5 DEF FlushAll, Cleanup, Rest, vars
  <1>6. ASSUME NEW e \in Evictors, (\E n \in Limits : EvictBegin(e, n)) \/ EvictStep(e)
        PROVE  StillInv'
    BY <1>1, <1>6 DEF EvictBegin, EvictStep, EvictCheck, EvictPop, EvictDelete, EvictFlush, EvictMark
  <1>7. CASE Restarted
    BY <1>7 DEF Restarted, StillInv
  <1>8. CASE Flushing
    BY <1>1, <1>8, FlushKeeps
  <1> QED BY <1>2, <1>3, <1>4, <1>5, <1>6, <1>7, <1>8 DEF Next, Crash, EvictDies, Flushing

WritePC == {"write", "store", "mark", "track"}

(* A call in progress has returned nothing, and where it is tells what it  *)
(* is.                                                                     *)
LEMMA NextOp ==
    ASSUME DiskInv, OpInv, [Next]_vars
    PROVE  OpInv'
  <1>1. CASE UNCHANGED <<frame, ret>>
    BY <1>1 DEF OpInv
  <1>2. CASE frame' = Idle
    BY <1>2 DEF OpInv
  <1>3. ASSUME NEW op \in {"read", "write"}, NEW p \in Paths, NEW r \in Ranges,
               Begin(op, p, r[1], r[2])
        PROVE  OpInv'
    <2>1. CASE entries[p].evicted
      BY <1>2, <1>3, <2>1 DEF Begin
    <2>2. CASE ~entries[p].evicted
      <3>1. /\ ret' = NoRet
            /\ frame' = [pc |-> op, op |-> op, p |-> p, off |-> r[1], len |-> r[2],
                         done |-> 0, block |-> <<>>, out |-> <<>>]
        BY <1>3, <2>2 DEF Begin
      <3>2. frame'.pc = op /\ frame'.op = op
        BY <3>1
      <3> QED BY <3>1, <3>2 DEF OpInv
    <2> QED BY <2>1, <2>2
  <1>4. CASE CallStep
    <2>1. frame.pc # "idle"
      BY <1>4 DEF CallStep, Finish, ReadStore, ReadDownload, ReadResponse, ReadFill, ReadCopy,
                  WriteLoad, WriteStore, WriteMark, WriteTrack
    <2>2. frame \in Frame /\ ret = NoRet /\ frame # Idle
          /\ frame.op = IF frame.pc \in WritePC THEN "write" ELSE "read"
      BY <2>1, InCall DEF OpInv, Idle, WritePC
    <2>3. ASSUME UNCHANGED ret, frame'.op = frame.op, frame'.pc \in WritePC <=> frame.pc \in WritePC
          PROVE  OpInv'
      BY <2>2, <2>3 DEF OpInv, WritePC
    <2>4. CASE Finish
      BY <1>2, <2>4 DEF Finish, Return
    <2>5. CASE ReadStore \/ ReadDownload \/ ReadFill \/ ReadCopy
      <3>1. UNCHANGED ret /\ frame'.op = frame.op /\ frame'.pc \notin WritePC /\ frame.pc \notin WritePC
        BY <2>2, <2>5 DEF ReadStore, ReadDownload, ReadFill, ReadCopy, Frame, WritePC
      <3> QED BY <2>3, <3>1
    <2>6. CASE WriteLoad \/ WriteStore \/ WriteMark \/ WriteTrack
      <3>1. UNCHANGED ret /\ frame'.op = frame.op /\ frame'.pc \in WritePC /\ frame.pc \in WritePC
        BY <2>2, <2>6 DEF WriteLoad, WriteStore, WriteMark, WriteTrack, Frame, WritePC
      <3> QED BY <2>3, <3>1
    <2>7. CASE ReadResponse
      <3>1. PICK ok \in BOOLEAN :
              \/ /\ frame' = [frame EXCEPT !.block = Fetched(frame.p, Blk, ok), !.pc = "fill"]
                 /\ UNCHANGED ret
              \/ frame' = Idle
        BY <2>7 DEF ReadResponse, Return
      <3>2. CASE /\ frame' = [frame EXCEPT !.block = Fetched(frame.p, Blk, ok), !.pc = "fill"]
                 /\ UNCHANGED ret
        <4>1. frame'.op = frame.op /\ frame'.pc = "fill" /\ frame.pc = "response"
          BY <2>2, <2>7, <3>2 DEF Frame, ReadResponse
        <4> QED BY <2>3, <3>2, <4>1 DEF WritePC
      <3> QED BY <1>2, <3>1, <3>2
    <2> QED BY <1>4, <2>4, <2>5, <2>6, <2>7 DEF CallStep
  <1>5. CASE FlushAll \/ Cleanup
    BY <1>2, <1>5 DEF FlushAll, Cleanup, Free
  <1>6. CASE Rest \/ UNCHANGED vars
    BY <1>1, <1>6 DEF Rest, vars
  <1>7. ASSUME NEW e \in Evictors, (\E n \in Limits : EvictBegin(e, n)) \/ EvictStep(e)
        PROVE  OpInv'
    BY <1>1, <1>7 DEF EvictBegin, EvictStep, EvictCheck, EvictPop, EvictDelete, EvictFlush, EvictMark
  <1>8. ASSUME NEW w \in Workers, PrefetchStep(w)
        PROVE  OpInv'
    BY <1>1, <1>8 DEF PrefetchStep, PrefetchTake, PrefetchDone, PrefetchCheck, PrefetchDownload,
                      PrefetchResponse, PrefetchFill, PrefetchTouch
  <1>9. CASE Restarted
    BY <1>2, <1>9 DEF Restarted
  <1>10. CASE Flushing
    BY <1>1, <1>10, FlushKeeps
  <1> QED BY <1>3, <1>4, <1>5, <1>6, <1>7, <1>8, <1>9, <1>10 DEF Next, Crash, EvictDies, Flushing

-----------------------------------------------------------------------------
(* Fresh cells through the steps of a read.                                *)

(* Every cell of the call's block is one of the cells.                     *)
LEMMA BlkCells ==
    ASSUME frame \in Frame, <<frame.off, frame.len>> \in Ranges, frame.done < frame.len,
           NEW i \in 1..kBlockSize
    PROVE  Cell(Blk, i) \in Cells
  <1>1. /\ frame.off \in Nat /\ frame.len \in Nat /\ frame.done \in Nat
        /\ kBlockSize \in Nat /\ i \in Nat /\ i >= 1 /\ i <= kBlockSize
    BY LayoutAssumption DEF Frame
  <1>2. Offset(Blk) \in Nat /\ In \in Nat /\ Offset(Blk) + In = Here
    BY HereFacts
  <1>3. Cell(Blk, i) \in Nat /\ Cell(Blk, i) <= frame.off + frame.len + kBlockSize
    BY <1>1, <1>2 DEF Cell, Here
  <1> DEFINE ahead == (PREFETCH_WINDOW + 1) * kBlockSize
             more == PREFETCH_WINDOW * kBlockSize
  <1>4. ahead = more + kBlockSize /\ more \in Nat
    BY WindowAssumption, LayoutAssumption
  <1>5. frame.off + frame.len + ahead \in Cells
    BY RangeAssumption
  <1> HIDE DEF ahead, more
  <1>6. \A c \in Cells, d \in Nat : d <= c => d \in Cells
    BY LayoutAssumption DEF Cells
  <1>7. Cell(Blk, i) <= frame.off + frame.len + ahead
    BY <1>1, <1>3, <1>4
  <1> QED BY <1>3, <1>5, <1>6, <1>7

(* What the invariant says of a call in progress.                          *)
LEMMA InFreshCall ==
    ASSUME FreshAll, frame.pc # "idle"
    PROVE  /\ DiskInv /\ writes \in Nat /\ frame # Idle /\ ret = NoRet
           /\ frame \in Frame /\ <<frame.off, frame.len>> \in Ranges /\ frame.p \in Paths
           /\ frame.block \in Seq(Val) /\ frame.out \in Seq(Val)
           /\ frame.off \in Nat /\ frame.done \in Nat /\ store[frame.p] \in Object
           /\ frame.pc \notin {"read", "write"} => frame.done < frame.len
  <1>1. DiskInv /\ OpInv
    BY DEF FreshAll, TypeAll
  <1>2. frame # Idle
    BY DEF Idle
  <1> QED BY <1>1, <1>2, InCall DEF DiskInv, OpInv, StoreInv, ObjectInv, Object, Frame

(* A step that leaves the store and the history alone.                     *)
LEMMA FreshStoreKept ==
    ASSUME FreshStore, UNCHANGED <<store, latest, since>>
    PROVE  FreshStore'
  BY DEF FreshStore, Fresh, Last, Cell, Offset, readBlock

(* A step that leaves all of it alone.                                     *)
LEMMA FreshKept ==
    ASSUME FreshInv, faults'["disk"] = 0 => faults["disk"] = 0,
           UNCHANGED <<store, frame, latest, since, writes>>, UNCHANGED ret \/ ret' = NoRet
    PROVE  FreshInv'
  <1> SUFFICES ASSUME FreshStore, FreshFrame, FreshOut, FreshRet
               PROVE  FreshStore' /\ FreshFrame' /\ FreshOut' /\ FreshRet'
    BY DEF FreshInv
  <1>1. FreshStore'
    BY FreshStoreKept
  <1>2. Blk' = Blk /\ In' = In /\ Want' = Want
    BY DEF Blk, In, Want, Here
  <1>3. FreshFrame'
    BY <1>2 DEF FreshFrame, Fresh, Last, Cell, Offset, InChunk
  <1>4. FreshOut'
    BY DEF FreshOut, ReadRight, Fresh, Last
  <1>5. FreshRet'
    BY DEF FreshRet, ReadRight, Fresh, Last, NoRet
  <1> QED BY <1>1, <1>3, <1>4, <1>5

(* What a call has read is within the cells.                               *)
LEMMA ReadCells ==
    ASSUME FreshAll, frame.pc # "idle", NEW i \in 1..frame.done
    PROVE  frame.off + (i - 1) \in Cells
  <1>1. /\ frame \in Frame /\ <<frame.off, frame.len>> \in Ranges /\ frame.done <= frame.len
        /\ frame.off \in Nat /\ frame.done \in Nat /\ frame.len \in Nat
    BY InCall DEF FreshAll, TypeAll, Frame
  <1> DEFINE ahead == (PREFETCH_WINDOW + 1) * kBlockSize
  <1>2. ahead \in Nat
    BY WindowAssumption, LayoutAssumption
  <1>3. frame.off + frame.len + ahead \in Cells
    BY <1>1, RangeAssumption
  <1> HIDE DEF ahead
  <1>4. \A c \in Cells, d \in Nat : d <= c => d \in Cells
    BY LayoutAssumption DEF Cells
  <1>5. frame.off + (i - 1) \in Nat /\ frame.off + (i - 1) <= frame.off + frame.len + ahead
    BY <1>1, <1>2
  <1> QED BY <1>3, <1>4, <1>5

(* The call ends, or does not begin: what it read is what it returns.      *)
LEMMA FreshReturn ==
    ASSUME FreshAll, faults'["disk"] = 0 => faults["disk"] = 0, frame.pc # "idle",
           UNCHANGED <<store, latest, since>>, NEW n, Return(n)
    PROVE  FreshInv'
  <1> SUFFICES ASSUME faults'["disk"] = 0 PROVE FreshStore' /\ FreshFrame' /\ FreshOut' /\ FreshRet'
    BY DEF FreshInv
  <1>0. FreshStore /\ FreshOut /\ frame # Idle
    BY InFreshCall DEF FreshAll, FreshInv
  <1>1. frame' = Idle /\ ret' = Result(frame.op, frame.p, frame.off, n, frame.out)
    BY DEF Return
  <1>2. FreshStore'
    BY <1>0, FreshStoreKept
  <1>3. FreshFrame' /\ FreshOut'
    BY <1>1 DEF FreshFrame, FreshOut, Idle
  <1>4. /\ ret'.op = frame.op /\ ret'.p = frame.p /\ ret'.off = frame.off /\ ret'.data = frame.out
    BY <1>1 DEF Result
  <1>5. frame.op = "read" => ReadRight(frame.out, frame.p, frame.off)
    BY <1>0 DEF FreshOut
  <1>7. frame.p \in Paths /\ \A i \in 1..frame.done : frame.off + (i - 1) \in Cells
    BY InFreshCall, ReadCells
  <1>8. frame.op = "read" => Len(frame.out) = frame.done
    BY <1>0 DEF FreshOut
  <1>6. FreshRet'
    BY <1>4, <1>5, <1>7, <1>8 DEF FreshRet, ReadRight, Fresh, Last
  <1> QED BY <1>2, <1>3, <1>6

(* A read, or a write that does not store, goes on within its block.       *)
LEMMA FreshMoves ==
    ASSUME FreshAll, faults'["disk"] = 0 => faults["disk"] = 0, frame.pc # "idle",
           UNCHANGED <<store, latest, since, writes, ret>>,
           NEW pc, NEW block, frame' = [frame EXCEPT !.pc = pc, !.block = block], pc # "idle",
           faults["disk"] = 0 => FreshFrame'
    PROVE  FreshInv'
  <1> SUFFICES ASSUME faults'["disk"] = 0 PROVE FreshStore' /\ FreshFrame' /\ FreshOut' /\ FreshRet'
    BY DEF FreshInv
  <1>0. FreshStore /\ FreshOut /\ FreshRet /\ frame # Idle /\ frame \in Frame
    BY InFreshCall DEF FreshAll, FreshInv
  <1>1. FreshStore'
    BY <1>0, FreshStoreKept
  <1>2. /\ frame'.op = frame.op /\ frame'.out = frame.out /\ frame'.done = frame.done
        /\ frame'.p = frame.p /\ frame'.off = frame.off
    BY <1>0 DEF Frame
  <1>3. FreshOut'
    BY <1>0, <1>2 DEF FreshOut, ReadRight, Fresh, Last
  <1>4. FreshRet'
    BY <1>0 DEF FreshRet, ReadRight, Fresh, Last
  <1> QED BY <1>1, <1>3, <1>4

(* Where the call is does not change with its pc and block.                *)
LEMMA SamePlace ==
    ASSUME frame \in Frame, NEW pc, NEW block,
           frame' = [frame EXCEPT !.pc = pc, !.block = block]
    PROVE  /\ frame'.pc = pc /\ frame'.block = block /\ frame'.p = frame.p
           /\ Blk' = Blk /\ In' = In /\ Want' = Want /\ Here' = Here
  <1>1. /\ frame'.pc = pc /\ frame'.block = block /\ frame'.p = frame.p
        /\ frame'.off = frame.off /\ frame'.done = frame.done /\ frame'.len = frame.len
    BY DEF Frame
  <1> QED BY <1>1 DEF Blk, In, Want, Here

(* A block that the store does not have as a whole has no fresh cell.      *)
LEMMA ReadStoreFresh ==
    ASSUME FreshAll, faults'["disk"] = 0 => faults["disk"] = 0, ReadStore
    PROVE  FreshInv'
  <1> DEFINE b == readBlock(store[frame.p], Offset(Blk))
             pc == IF Len(b) = kBlockSize THEN "copy" ELSE "download"
  <1>1. /\ frame.pc = "read" /\ frame.done < frame.len
        /\ frame' = [frame EXCEPT !.pc = pc, !.block = b]
        /\ UNCHANGED <<store, latest, since, writes, ret>>
    BY DEF ReadStore, disk, history, counts
  <1>2. /\ frame \in Frame /\ <<frame.off, frame.len>> \in Ranges /\ frame.p \in Paths
    BY <1>1, InFreshCall
  <1>3. Blk \in Nat
    BY <1>1, <1>2, HereFacts
  <1>4. ASSUME faults["disk"] = 0 PROVE FreshFrame'
    <2>1. ASSUME NEW i \in 1..kBlockSize, Fresh(frame.p, Cell(Blk, i))
          PROVE  Len(b) = kBlockSize /\ b[i] = Last(frame.p, Cell(Blk, i))
      <3>1. Cell(Blk, i) \in Cells
        BY <1>1, <1>2, BlkCells
      <3> QED BY <1>2, <1>3, <1>4, <2>1, <3>1 DEF FreshAll, FreshInv, FreshStore
    <2> HIDE DEF b
    <2>2. frame'.pc = pc /\ frame'.block = b /\ frame'.p = frame.p /\ Blk' = Blk
      BY <1>1, <1>2, SamePlace
    <2>3. \A i : /\ Fresh(frame.p, Cell(Blk, i))' <=> Fresh(frame.p, Cell(Blk, i))
                 /\ Last(frame.p, Cell(Blk, i))' = Last(frame.p, Cell(Blk, i))
                 /\ Cell(Blk, i)' = Cell(Blk, i)
      BY <1>1, <2>2 DEF Fresh, Last, Cell, Offset
    <2>4. CASE Len(b) = kBlockSize
      <3>1. \A i \in 1..kBlockSize : i <= Len(b)
        BY <2>4, LayoutAssumption
      <3> QED BY <2>1, <2>2, <2>3, <2>4, <3>1 DEF FreshFrame
    <2>5. CASE Len(b) # kBlockSize
      BY <2>1, <2>2, <2>3, <2>5 DEF FreshFrame
    <2> QED BY <2>4, <2>5
  <1>5. pc # "idle" /\ frame.pc # "idle"
    BY <1>1
  <1> HIDE DEF b, pc
  <1> QED BY <1>1, <1>4, <1>5, FreshMoves

(* Waiting for the backend.                                                *)
LEMMA ReadDownloadFresh ==
    ASSUME FreshAll, faults'["disk"] = 0 => faults["disk"] = 0, ReadDownload
    PROVE  FreshInv'
  <1>1. /\ frame.pc = "download" /\ UNCHANGED <<store, latest, since, writes, ret>>
        /\ frame' = [frame EXCEPT !.pc = "response"]
    BY DEF ReadDownload, disk, history, counts
  <1>2. frame \in Frame
    BY <1>1, InFreshCall
  <1>3. frame' = [frame EXCEPT !.pc = "response", !.block = frame.block]
    BY <1>1, <1>2 DEF Frame
  <1>4. frame'.pc = "response" /\ frame'.p = frame.p /\ Blk' = Blk
    BY <1>2, <1>3, SamePlace
  <1>5. ASSUME faults["disk"] = 0 PROVE FreshFrame'
    BY <1>1, <1>4, <1>5 DEF FreshAll, FreshInv, FreshFrame, Fresh, Cell, Offset
  <1> QED BY <1>1, <1>3, <1>5, FreshMoves

(* The answer, if any, is for a block without fresh cells.                 *)
LEMMA ReadResponseFresh ==
    ASSUME FreshAll, faults'["disk"] = 0 => faults["disk"] = 0, ReadResponse
    PROVE  FreshInv'
  <1>1. frame.pc = "response" /\ UNCHANGED <<store, latest, since, writes>>
    BY DEF ReadResponse, disk, history
  <1>2. frame \in Frame
    BY <1>1, InFreshCall
  <1>3. PICK ok \in BOOLEAN :
          \/ /\ frame' = [frame EXCEPT !.pc = "fill", !.block = Fetched(frame.p, Blk, ok)]
             /\ UNCHANGED ret
          \/ Return(IF frame.done > 0 THEN frame.done ELSE Failed)
    BY DEF ReadResponse
  <1>4. CASE Return(IF frame.done > 0 THEN frame.done ELSE Failed)
    BY <1>1, <1>4, FreshReturn
  <1>5. CASE /\ frame' = [frame EXCEPT !.pc = "fill", !.block = Fetched(frame.p, Blk, ok)]
             /\ UNCHANGED ret
    <2> DEFINE got == Fetched(frame.p, Blk, ok)
    <2>1. frame' = [frame EXCEPT !.pc = "fill", !.block = got]
      BY <1>5
    <2> HIDE DEF got
    <2>2. frame'.pc = "fill" /\ frame'.p = frame.p /\ Blk' = Blk
      BY <1>2, <2>1, SamePlace
    <2>3. ASSUME faults["disk"] = 0 PROVE FreshFrame'
      BY <1>1, <2>2, <2>3 DEF FreshAll, FreshInv, FreshFrame, Fresh, Cell, Offset
    <2> QED BY <1>1, <1>5, <2>1, <2>3, FreshMoves
  <1> QED BY <1>3, <1>4, <1>5

(* A write to the store that is not counted as failed took place.          *)
LEMMA StoreWriteDone ==
    ASSUME CountsInv, NEW p, NEW data, NEW blk, StoreWrite(p, data, blk), faults'["disk"] = 0
    PROVE  store' = [store EXCEPT ![p] = write(@, data, Offset(blk))]
  <1>1. ~Fault("disk")
    BY FaultCounts
  <1> QED BY <1>1 DEF StoreWrite

(* It leaves the fresh cells of other blocks as they were.                 *)
LEMMA OtherBlockFresh ==
    ASSUME DiskInv, FreshStore, frame.p \in Paths, Blk \in Nat, frame.block \in Seq(Val),
           Len(frame.block) <= kBlockSize,
           store' = [store EXCEPT ![frame.p] = write(@, frame.block, Offset(Blk))],
           NEW q \in Paths, NEW b \in Nat, NEW i \in 1..kBlockSize,
           Cell(b, i) \in Cells, Fresh(q, Cell(b, i)), ~(q = frame.p /\ b = Blk)
    PROVE  /\ Len(readBlock(store'[q], Offset(b))) = kBlockSize
           /\ readBlock(store'[q], Offset(b))[i] = Last(q, Cell(b, i))
  <1> DEFINE p == frame.p
             blk == Blk
             data == frame.block
  <1>0. /\ p \in Paths /\ blk \in Nat /\ data \in Seq(Val) /\ Len(data) <= kBlockSize
        /\ store' = [store EXCEPT ![p] = write(store[p], data, Offset(blk))] /\ ~(q = p /\ b = blk)
    OBVIOUS
  <1> HIDE DEF p, blk, data
  <1>1. store = [x \in Paths |-> store[x]] /\ \A x \in Paths : store[x] \in Object
    BY DEF DiskInv, StoreInv, ObjectInv, Object
  <1>2. /\ Len(readBlock(store[q], Offset(b))) = kBlockSize
        /\ readBlock(store[q], Offset(b))[i] = Last(q, Cell(b, i))
    BY DEF FreshStore
  <1>3. PartOf(Offset(b)) \in Parts
    BY CellFacts
  <1>4. CASE q # p
    <2>1. store'[q] = store[q]
      BY <1>0, <1>1, <1>4
    <2> QED BY <1>2, <2>1
  <1>5. CASE q = p
    <2> DEFINE new == write(store[p], data, Offset(blk))
    <2>1. store'[q] = new
      <3>1. store' = [store EXCEPT ![p] = new]
        BY <1>0
      <3> HIDE DEF new
      <3> QED BY <1>1, <1>5, <3>1
    <2>2. /\ Len(readBlock(new, Offset(b))) = kBlockSize
          /\ readBlock(new, Offset(b))[i] = readBlock(store[p], Offset(b))[i]
      BY <1>0, <1>1, <1>2, <1>3, <1>5, OtherBlock
    <2> HIDE DEF new
    <2> QED BY <1>2, <1>5, <2>1, <2>2
  <1> QED BY <1>4, <1>5

(* The fill replaces a block without fresh cells.                          *)
LEMMA ReadFillFresh ==
    ASSUME FreshAll, faults'["disk"] = 0 => faults["disk"] = 0, ReadFill
    PROVE  FreshInv'
  <1>1. /\ frame.pc = "fill" /\ UNCHANGED <<latest, since, writes, ret>>
        /\ StoreWrite(frame.p, frame.block, Blk) /\ frame' = [frame EXCEPT !.pc = "copy"]
    BY DEF ReadFill, history
  <1>2. /\ DiskInv /\ frame \in Frame /\ <<frame.off, frame.len>> \in Ranges /\ frame.p \in Paths
        /\ frame.block \in Seq(Val) /\ frame.done < frame.len /\ frame # Idle
        /\ Len(frame.block) <= kBlockSize
    BY <1>1, InFreshCall DEF FreshAll, TypeAll, SizeInv, FrameSize
  <1>3. Blk \in Nat
    BY <1>2, HereFacts
  <1>4. frame' = [frame EXCEPT !.pc = "copy", !.block = frame.block]
    BY <1>1, <1>2 DEF Frame
  <1>5. frame'.pc = "copy" /\ frame'.p = frame.p /\ Blk' = Blk
    BY <1>2, <1>4, SamePlace
  <1> SUFFICES ASSUME faults'["disk"] = 0 PROVE FreshStore' /\ FreshFrame' /\ FreshOut' /\ FreshRet'
    BY DEF FreshInv
  <1>6. FreshStore /\ FreshFrame /\ FreshOut /\ FreshRet
    BY DEF FreshAll, FreshInv
  <1>7. \A i \in 1..kBlockSize : ~Fresh(frame.p, Cell(Blk, i))
    BY <1>1, <1>6 DEF FreshFrame
  <1>8. store' = [store EXCEPT ![frame.p] = write(@, frame.block, Offset(Blk))]
    BY <1>1, StoreWriteDone DEF FreshAll
  <1>9. FreshStore'
    <2> SUFFICES ASSUME NEW q \in Paths, NEW b \in Nat, NEW i \in 1..kBlockSize,
                        Cell(b, i) \in Cells, Fresh(q, Cell(b, i))
                 PROVE  /\ Len(readBlock(store'[q], Offset(b))) = kBlockSize
                        /\ readBlock(store'[q], Offset(b))[i] = Last(q, Cell(b, i))
      BY <1>1 DEF FreshStore, Fresh, Last, Cell, Offset, readBlock
    <2>1. ~(q = frame.p /\ b = Blk)
      BY <1>7
    <2> QED BY <1>2, <1>3, <1>6, <1>8, <2>1, OtherBlockFresh
  <1>10. FreshFrame'
    BY <1>1, <1>5, <1>7 DEF FreshFrame, Fresh, Cell, Offset
  <1>11. FreshOut'
    <2>1. /\ frame'.op = frame.op /\ frame'.out = frame.out /\ frame'.done = frame.done
          /\ frame'.off = frame.off
      BY <1>1, <1>2 DEF Frame
    <2> QED BY <1>1, <1>2, <1>5, <1>6, <2>1 DEF FreshOut, ReadRight, Fresh, Last
  <1>12. FreshRet'
    BY <1>1, <1>6 DEF FreshRet, ReadRight, Fresh, Last
  <1> QED BY <1>9, <1>10, <1>11, <1>12

(* The chunk that is copied out of the block.                              *)
LEMMA CopiedAt ==
    ASSUME frame \in Frame, <<frame.off, frame.len>> \in Ranges, frame.done < frame.len
    PROVE  /\ Copied \in Seq(Val) /\ Len(Copied) = Want
           /\ \A j \in 1..Want :
                Copied[j] = IF In + j <= Len(frame.block) THEN frame.block[In + j] ELSE Junk
  <1> DEFINE at(j) == IF In + j <= Len(frame.block) THEN frame.block[In + j] ELSE Junk
             n == Want
  <1>1. n \in Nat /\ Copied \in Seq(Val)
    BY HereFacts, CopiedSeq
  <1>2. Copied = [j \in 1..n |-> at(j)]
    BY DEF Copied
  <1> HIDE DEF at, n
  <1>3. Len(Copied) = n /\ \A j \in 1..n : Copied[j] = at(j)
    BY <1>1, <1>2
  <1> QED BY <1>1, <1>3 DEF at, n

(* The cells of a concatenation.                                           *)
LEMMA ConcatAt ==
    ASSUME NEW s \in Seq(Val), NEW t \in Seq(Val)
    PROVE  /\ Len(s \o t) = Len(s) + Len(t)
           /\ \A i \in 1..Len(s) : (s \o t)[i] = s[i]
           /\ \A j \in 1..Len(t) : (s \o t)[Len(s) + j] = t[j]
  OBVIOUS

(* What is copied out is right.                                            *)
LEMMA ReadCopyFresh ==
    ASSUME FreshAll, faults'["disk"] = 0 => faults["disk"] = 0, ReadCopy
    PROVE  FreshInv'
  <1>1. /\ frame.pc = "copy" /\ UNCHANGED <<store, latest, since, writes, ret>>
        /\ frame' = [frame EXCEPT !.pc = "read", !.block = <<>>, !.out = @ \o Copied, !.done = @ + Want]
    BY DEF ReadCopy, disk, history, counts
  <1>2. /\ frame \in Frame /\ <<frame.off, frame.len>> \in Ranges /\ frame.p \in Paths
        /\ frame.block \in Seq(Val) /\ frame.out \in Seq(Val) /\ frame.done < frame.len
        /\ frame # Idle /\ frame.off \in Nat /\ frame.done \in Nat /\ ret = NoRet
    BY <1>1, InFreshCall
  <1>3. /\ Here \in Nat /\ Blk \in Nat /\ Offset(Blk) \in Nat /\ In \in Nat /\ Want \in Nat
        /\ Offset(Blk) + In = Here /\ In + Want <= kBlockSize
    BY <1>2, HereFacts
  <1>4. /\ Copied \in Seq(Val) /\ Len(Copied) = Want
        /\ \A j \in 1..Want :
             Copied[j] = IF In + j <= Len(frame.block) THEN frame.block[In + j] ELSE Junk
    BY <1>2, CopiedAt
  <1> DEFINE out == frame.out \o Copied
             done == frame.done + Want
  <1>5. /\ frame'.pc = "read" /\ frame'.op = frame.op /\ frame'.p = frame.p
        /\ frame'.off = frame.off /\ frame'.out = out /\ frame'.done = done
    BY <1>1, <1>2 DEF Frame
  <1> SUFFICES ASSUME faults'["disk"] = 0 PROVE FreshStore' /\ FreshFrame' /\ FreshOut' /\ FreshRet'
    BY DEF FreshInv
  <1>6. FreshStore /\ FreshFrame /\ FreshOut /\ FreshRet
    BY DEF FreshAll, FreshInv
  <1>7. FreshStore' /\ FreshFrame'
    BY <1>1, <1>5, <1>6, FreshStoreKept DEF FreshFrame
  <1>8. FreshRet'
    BY <1>1, <1>2 DEF FreshRet, NoRet
  <1>9. ASSUME frame.op = "read"
        PROVE  Len(out) = done /\ ReadRight(out, frame.p, frame.off)
    <2>1. Len(frame.out) = frame.done /\ ReadRight(frame.out, frame.p, frame.off)
      BY <1>2, <1>6, <1>9 DEF FreshOut
    <2>2. /\ Len(out) = frame.done + Want
          /\ \A i \in 1..frame.done : out[i] = frame.out[i]
          /\ \A j \in 1..Want : out[frame.done + j] = Copied[j]
      <3>1. frame.out \in Seq(Val) /\ Copied \in Seq(Val)
        BY <1>2, <1>4
      <3>2. /\ Len(out) = Len(frame.out) + Len(Copied)
            /\ \A i \in 1..Len(frame.out) : out[i] = frame.out[i]
            /\ \A j \in 1..Len(Copied) : out[Len(frame.out) + j] = Copied[j]
        BY ONLY <3>1, ConcatAt
      <3> HIDE DEF out
      <3> QED BY <1>4, <2>1, <3>2
    <2> HIDE DEF out
    <2>3. ASSUME NEW j \in 1..Want, Fresh(frame.p, Here + (j - 1))
          PROVE  Copied[j] = Last(frame.p, Here + (j - 1))
      <3>1. In + j \in 1..kBlockSize /\ Cell(Blk, In + j) = Here + (j - 1)
        BY <1>3, LayoutAssumption DEF Cell
      <3>2. In + j <= Len(frame.block) /\ frame.block[In + j] = Last(frame.p, Cell(Blk, In + j))
        BY <1>1, <1>6, <2>3, <3>1 DEF FreshFrame
      <3> QED BY <1>4, <3>1, <3>2
    <2>4. ASSUME NEW i \in 1..Len(out), Fresh(frame.p, frame.off + (i - 1))
          PROVE  out[i] = Last(frame.p, frame.off + (i - 1))
      <3>1. CASE i <= frame.done
        <4>1. i \in 1..frame.done /\ i \in 1..Len(frame.out)
          BY <1>2, <1>3, <2>1, <2>2, <3>1
        <4>2. frame.out[i] = Last(frame.p, frame.off + (i - 1))
          BY <2>1, <2>4, <4>1 DEF ReadRight
        <4> QED BY <2>2, <4>1, <4>2
      <3>2. CASE i > frame.done
        <4> DEFINE j == i - frame.done
        <4>1. j \in 1..Want /\ frame.done + j = i /\ Here + (j - 1) = frame.off + (i - 1)
          <5> DEFINE d == frame.done
                     o == frame.off
                     n == Want
                     h == Here
                     m == Len(out)
          <5>1. d \in Nat /\ o \in Nat /\ n \in Nat /\ h = o + d /\ m = d + n /\ i \in 1..m /\ i > d
            BY <1>2, <1>3, <2>2, <3>2 DEF Here
          <5> HIDE DEF d, o, n, h, m
          <5>2. i - d \in 1..n /\ d + (i - d) = i /\ h + ((i - d) - 1) = o + (i - 1)
            BY ONLY <5>1
          <5> QED BY <5>2 DEF d, o, n, h
        <4> HIDE DEF j
        <4> QED BY <2>2, <2>3, <2>4, <4>1
      <3> QED BY <1>2, <1>3, <2>2, <3>1, <3>2
    <2> QED BY <2>2, <2>4 DEF ReadRight
  <1>10. FreshOut'
    <2> HIDE DEF out, done
    <2> QED BY <1>1, <1>5, <1>9 DEF FreshOut, ReadRight, Fresh, Last
  <1> QED BY <1>7, <1>8, <1>10

-----------------------------------------------------------------------------
(* Fresh cells through the steps of a write.                               *)

(* The merged block: the chunk on top, what the store has elsewhere.       *)
LEMMA MergedAt ==
    ASSUME frame \in Frame, <<frame.off, frame.len>> \in Ranges, frame.done < frame.len,
           writes \in Nat, NEW old, NEW i \in 1..kBlockSize
    PROVE  /\ InChunk(i) => Merged(old)[i] = <<writes, frame.p, Cell(Blk, i)>>
           /\ ~InChunk(i) /\ i <= Len(old) => Merged(old)[i] = old[i]
  <1> DEFINE at(k) == IF k > In /\ k <= In + Want THEN Chunk[k - In]
                      ELSE IF k <= Len(old) THEN old[k] ELSE Zero
  <1>1. Merged(old) = [k \in 1..kBlockSize |-> at(k)]
    BY DEF Merged
  <1>2. Merged(old)[i] = at(i)
    <2> HIDE DEF at
    <2> QED BY <1>1
  <1>3. /\ Here \in Nat /\ In \in Nat /\ Want \in Nat /\ Offset(Blk) \in Nat /\ Offset(Blk) + In = Here
    BY HereFacts
  <1>4. ASSUME InChunk(i) PROVE at(i) = <<writes, frame.p, Cell(Blk, i)>>
    <2> DEFINE k == i - In
    <2>1. k \in 1..Want /\ Here + (k - 1) = Cell(Blk, i)
      BY <1>3, <1>4, LayoutAssumption DEF InChunk, Cell
    <2>2. at(i) = Chunk[k]
      BY <1>4 DEF InChunk
    <2> HIDE DEF k, at
    <2>3. Chunk[k] = <<writes, frame.p, Here + (k - 1)>>
      BY <2>1, ChunkOwn
    <2> QED BY <2>1, <2>2, <2>3
  <1>5. ~InChunk(i) /\ i <= Len(old) => at(i) = old[i]
    BY DEF InChunk
  <1> HIDE DEF at
  <1> QED BY <1>2, <1>4, <1>5

(* The block that is to be stored keeps the fresh cells of the old one.    *)
LEMMA WriteLoadFresh ==
    ASSUME FreshAll, faults'["disk"] = 0 => faults["disk"] = 0, WriteLoad
    PROVE  FreshInv'
  <1> DEFINE old == readBlock(store[frame.p], Offset(Blk))
             new == Merged(old)
  <1>1. /\ frame.pc = "write" /\ frame.done < frame.len
        /\ frame' = [frame EXCEPT !.pc = "store", !.block = new]
        /\ UNCHANGED <<store, latest, since, writes, ret>>
    BY DEF WriteLoad, disk, history, counts
  <1>2. /\ frame \in Frame /\ <<frame.off, frame.len>> \in Ranges /\ frame.p \in Paths
        /\ writes \in Nat
    BY <1>1, InFreshCall
  <1>3. Blk \in Nat
    BY <1>1, <1>2, HereFacts
  <1>4. Len(new) = kBlockSize
    BY MergedLen
  <1>5. ASSUME faults["disk"] = 0, NEW i \in 1..kBlockSize
        PROVE  /\ InChunk(i) => new[i] = <<writes, frame.p, Cell(Blk, i)>>
               /\ ~InChunk(i) /\ Fresh(frame.p, Cell(Blk, i)) =>
                    new[i] = Last(frame.p, Cell(Blk, i))
    <2>1. Cell(Blk, i) \in Cells
      BY <1>1, <1>2, BlkCells
    <2>2. FreshStore
      BY <1>5 DEF FreshAll, FreshInv
    <2>3. Fresh(frame.p, Cell(Blk, i)) =>
            Len(old) = kBlockSize /\ old[i] = Last(frame.p, Cell(Blk, i))
      BY <1>2, <1>3, <2>1, <2>2 DEF FreshStore
    <2> HIDE DEF old
    <2>4. /\ InChunk(i) => new[i] = <<writes, frame.p, Cell(Blk, i)>>
          /\ ~InChunk(i) /\ i <= Len(old) => new[i] = old[i]
      BY <1>1, <1>2, MergedAt
    <2> QED BY <2>3, <2>4, LayoutAssumption
  <1> HIDE DEF old, new
  <1>6. /\ frame'.pc = "store" /\ frame'.block = new /\ frame'.p = frame.p
        /\ Blk' = Blk /\ In' = In /\ Want' = Want
    BY <1>1, <1>2, SamePlace
  <1>7. ASSUME faults["disk"] = 0 PROVE FreshFrame'
    BY <1>1, <1>4, <1>5, <1>6, <1>7 DEF FreshFrame, Fresh, Last, Cell, Offset, InChunk
  <1>8. frame.pc # "idle"
    BY <1>1
  <1> QED BY <1>1, <1>7, <1>8, FreshMoves

(* The block is stored: its chunk is the last write from now on.           *)
LEMMA WriteStoreFresh ==
    ASSUME FreshAll, faults'["disk"] = 0 => faults["disk"] = 0, WriteStore
    PROVE  FreshInv'
  <1> DEFINE at(c) == IF c >= Here /\ c < Here + Want THEN writes ELSE latest[frame.p][c]
  <1>1. /\ frame.pc = "store" /\ UNCHANGED <<since, writes, ret>>
        /\ StoreWrite(frame.p, frame.block, Blk) /\ frame' = [frame EXCEPT !.pc = "mark"]
        /\ latest' = [latest EXCEPT ![frame.p] = [c \in Cells |-> at(c)]]
    BY DEF WriteStore
  <1>2. /\ DiskInv /\ frame \in Frame /\ <<frame.off, frame.len>> \in Ranges /\ frame.p \in Paths
        /\ frame.block \in Seq(Val) /\ frame.done < frame.len /\ frame # Idle /\ ret = NoRet
        /\ Len(frame.block) <= kBlockSize /\ store[frame.p] \in Object
        /\ latest \in [Paths -> [Cells -> Nat]] /\ OpInv
    BY <1>1, InFreshCall DEF FreshAll, TypeAll, SizeInv, FrameSize, HistInv
  <1>3. /\ Here \in Nat /\ Blk \in Nat /\ Offset(Blk) \in Nat /\ In \in Nat /\ Want \in Nat
        /\ Offset(Blk) + In = Here /\ In + Want <= kBlockSize /\ PartOf(Offset(Blk)) \in Parts
    BY <1>2, HereFacts
  <1>4. frame'.pc = "mark" /\ frame'.op = "write"
    <2>1. frame'.pc = "mark" /\ frame'.op = frame.op
      BY <1>1, <1>2 DEF Frame
    <2> QED BY <1>1, <1>2, <2>1 DEF OpInv
  <1> SUFFICES ASSUME faults'["disk"] = 0 PROVE FreshStore' /\ FreshFrame' /\ FreshOut' /\ FreshRet'
    BY DEF FreshInv
  <1>5. FreshFrame' /\ FreshOut' /\ FreshRet'
    BY <1>1, <1>2, <1>4 DEF FreshFrame, FreshOut, FreshRet, NoRet
  <1>6. FreshStore /\ FreshFrame
    BY DEF FreshAll, FreshInv
  <1>7. store' = [store EXCEPT ![frame.p] = write(@, frame.block, Offset(Blk))]
    BY <1>1, StoreWriteDone DEF FreshAll
  <1>8. \A q \in Paths, c \in Cells : latest'[q][c] = IF q = frame.p THEN at(c) ELSE latest[q][c]
    <2> HIDE DEF at
    <2> QED BY <1>1, <1>2
  <1>9. FreshStore'
    <2> SUFFICES ASSUME NEW q \in Paths, NEW b \in Nat, NEW i \in 1..kBlockSize,
                        Cell(b, i) \in Cells, latest'[q][Cell(b, i)] > since[q]
                 PROVE  /\ Len(readBlock(store'[q], Offset(b))) = kBlockSize
                        /\ readBlock(store'[q], Offset(b))[i] =
                             <<latest'[q][Cell(b, i)], q, Cell(b, i)>>
      BY <1>1 DEF FreshStore, Fresh, Last, Cell, Offset, readBlock
    <2>1. CASE q = frame.p /\ b = Blk
      <3> DEFINE new == write(store[frame.p], frame.block, Offset(Blk))
                 r == readBlock(new, Offset(Blk))
      <3>1. store'[q] = new
        <4>1. store' = [store EXCEPT ![frame.p] = new] /\ store = [x \in Paths |-> store[x]]
          BY <1>2, <1>7 DEF DiskInv, StoreInv
        <4> HIDE DEF new
        <4> QED BY <1>2, <2>1, <4>1
      <3>2. /\ Len(frame.block) = kBlockSize
            /\ InChunk(i) => frame.block[i] = <<writes, frame.p, Cell(Blk, i)>>
            /\ ~InChunk(i) /\ Fresh(frame.p, Cell(Blk, i)) =>
                  frame.block[i] = Last(frame.p, Cell(Blk, i))
        BY <1>1, <1>6 DEF FreshFrame
      <3>3. Len(r) = kBlockSize /\ r[i] = frame.block[i]
        BY <1>2, <1>3, <3>2, ReadBack
      <3> HIDE DEF new, r
      <3>4. InChunk(i) <=> Cell(Blk, i) >= Here /\ Cell(Blk, i) < Here + Want
        BY <1>3, LayoutAssumption DEF InChunk, Cell
      <3>5. latest'[q][Cell(b, i)] = at(Cell(b, i))
        BY <1>8, <2>1
      <3>6. frame.block[i] = <<latest'[q][Cell(b, i)], q, Cell(b, i)>>
        <4>1. CASE InChunk(i)
          BY <2>1, <3>2, <3>4, <3>5, <4>1
        <4>2. CASE ~InChunk(i)
          <5>1. latest'[q][Cell(b, i)] = latest[q][Cell(b, i)]
            BY <2>1, <3>4, <3>5, <4>2
          <5> QED BY <2>1, <3>2, <4>2, <5>1 DEF Fresh, Last
        <4> QED BY <4>1, <4>2
      <3> QED BY <2>1, <3>1, <3>3, <3>6 DEF r
    <2>2. CASE ~(q = frame.p /\ b = Blk)
      <3>1. latest'[q][Cell(b, i)] = latest[q][Cell(b, i)]
        <4>1. CASE q # frame.p
          BY <1>8, <4>1
        <4>2. CASE q = frame.p
          <5>1. ~(Cell(b, i) >= Here /\ Cell(b, i) < Here + Want)
            <6> SUFFICES ASSUME Cell(b, i) >= Here, Cell(b, i) < Here + Want PROVE FALSE
              OBVIOUS
            <6> DEFINE c == Cell(b, i)
                       j == (c - Offset(Blk)) + 1
            <6>1. c \in Nat
              BY CellFacts
            <6> HIDE DEF c
            <6>2. j \in 1..kBlockSize /\ Cell(Blk, j) = c
              BY <1>3, <6>1, LayoutAssumption DEF Cell, c
            <6> HIDE DEF j
            <6>3. b = Blk
              BY <1>3, <6>2, CellBlock DEF c
            <6> QED BY <2>2, <4>2, <6>3
          <5>2. latest'[q][Cell(b, i)] = at(Cell(b, i))
            BY <1>8, <4>2
          <5> QED BY <4>2, <5>1, <5>2
        <4> QED BY <4>1, <4>2
      <3>2. Fresh(q, Cell(b, i))
        BY <3>1 DEF Fresh
      <3>3. /\ Len(readBlock(store'[q], Offset(b))) = kBlockSize
            /\ readBlock(store'[q], Offset(b))[i] = Last(q, Cell(b, i))
        BY <1>2, <1>3, <1>6, <1>7, <2>2, <3>2, OtherBlockFresh
      <3> QED BY <3>1, <3>3 DEF Last
    <2> QED BY <2>1, <2>2
  <1> QED BY <1>5, <1>9

(* The rest of a write's loop does not touch the store.                    *)
LEMMA WriteRestFresh ==
    ASSUME FreshAll, faults'["disk"] = 0 => faults["disk"] = 0, WriteMark \/ WriteTrack
    PROVE  FreshInv'
  <1>1. /\ frame.pc \in {"mark", "track"} /\ UNCHANGED <<store, latest, since, ret>>
        /\ \/ frame' = [frame EXCEPT !.pc = "track"]
           \/ frame' = [frame EXCEPT !.pc = "write", !.block = <<>>, !.done = @ + Want]
    BY DEF WriteMark, WriteTrack, disk, history
  <1>2. frame \in Frame /\ frame # Idle /\ ret = NoRet /\ OpInv
    BY <1>1, InFreshCall DEF FreshAll
  <1>3. frame'.pc \in {"track", "write"} /\ frame'.op = "write"
    <2>1. frame'.pc \in {"track", "write"} /\ frame'.op = frame.op
      BY <1>1, <1>2 DEF Frame
    <2> QED BY <1>1, <1>2, <2>1 DEF OpInv
  <1> SUFFICES ASSUME faults'["disk"] = 0 PROVE FreshStore' /\ FreshFrame' /\ FreshOut' /\ FreshRet'
    BY DEF FreshInv
  <1>4. FreshFrame' /\ FreshOut' /\ FreshRet'
    BY <1>1, <1>2, <1>3 DEF FreshFrame, FreshOut, FreshRet, NoRet
  <1>5. FreshStore'
    BY <1>1, FreshStoreKept DEF FreshAll, FreshInv
  <1> QED BY <1>4, <1>5

-----------------------------------------------------------------------------
(* Fresh cells through the other steps.                                    *)

(* A call begins with nothing read, or fails and returns nothing.          *)
LEMMA BeginFresh ==
    ASSUME FreshAll, faults'["disk"] = 0 => faults["disk"] = 0,
           NEW op \in {"read", "write"}, NEW p \in Paths, NEW r \in Ranges,
           Begin(op, p, r[1], r[2])
    PROVE  FreshInv'
  <1> DEFINE first == [pc |-> op, op |-> op, p |-> p, off |-> r[1], len |-> r[2],
                       done |-> 0, block |-> <<>>, out |-> <<>>]
             gone == Result(op, p, r[1], ENOENT, <<>>)
  <1>1. /\ UNCHANGED <<store, latest, since>>
        /\ (frame' = Idle /\ ret' = gone) \/ (frame' = first /\ ret' = NoRet)
    BY DEF Begin, disk, history
  <1> SUFFICES ASSUME faults'["disk"] = 0 PROVE FreshStore' /\ FreshFrame' /\ FreshOut' /\ FreshRet'
    BY DEF FreshInv
  <1>2. FreshStore'
    BY <1>1, FreshStoreKept DEF FreshAll, FreshInv
  <1>3. first.pc = op /\ first.done = 0 /\ first.out = <<>> /\ gone.data = <<>> /\ gone.p = p
    BY DEF Result
  <1> HIDE DEF first, gone
  <1>4. FreshFrame'
    BY <1>1, <1>3 DEF FreshFrame, Idle
  <1>5. FreshOut'
    BY <1>1, <1>3 DEF FreshOut, ReadRight, Idle
  <1>6. FreshRet'
    BY <1>1, <1>3 DEF FreshRet, ReadRight, NoRet
  <1> QED BY <1>2, <1>4, <1>5, <1>6

(* The object that is deleted has no fresh cells left.                     *)
LEMMA EvictDeleteFresh ==
    ASSUME FreshAll, faults'["disk"] = 0 => faults["disk"] = 0, NEW e \in Evictors, EvictDelete(e)
    PROVE  FreshInv'
  <1> DEFINE d == ev[e].p
  <1>1. /\ store' = [store EXCEPT ![d] = NoObject] /\ since' = [since EXCEPT ![d] = writes]
        /\ UNCHANGED <<latest, frame, ret, writes>>
    BY DEF EvictDelete, counts
  <1> HIDE DEF d
  <1>2. /\ store = [p \in Paths |-> store[p]] /\ since \in [Paths -> Nat]
        /\ latest \in [Paths -> [Cells -> Nat]] /\ writes \in Nat
        /\ \A p \in Paths : since[p] <= writes /\ \A c \in Cells : latest[p][c] <= writes
    BY DEF FreshAll, TypeAll, DiskInv, StoreInv, HistInv
  <1>3. ASSUME NEW p \in Paths
        PROVE  IF p = d THEN since'[p] = writes
               ELSE since'[p] = since[p] /\ store'[p] = store[p]
    BY <1>1, <1>2
  <1>4. ASSUME NEW p \in Paths, NEW c \in Cells, latest[p][c] > since'[p]
        PROVE  Fresh(p, c) /\ store'[p] = store[p]
    BY <1>2, <1>3, <1>4 DEF Fresh
  <1> SUFFICES ASSUME faults'["disk"] = 0 PROVE FreshStore' /\ FreshFrame' /\ FreshOut' /\ FreshRet'
    BY DEF FreshInv
  <1>5. FreshStore /\ FreshFrame /\ FreshOut /\ FreshRet
    BY DEF FreshAll, FreshInv
  <1>6. FreshStore'
    <2> SUFFICES ASSUME NEW q \in Paths, NEW b \in Nat, NEW i \in 1..kBlockSize,
                        Cell(b, i) \in Cells, latest[q][Cell(b, i)] > since'[q]
                 PROVE  /\ Len(readBlock(store'[q], Offset(b))) = kBlockSize
                        /\ readBlock(store'[q], Offset(b))[i] = Last(q, Cell(b, i))
      <3>1. UNCHANGED latest
        BY <1>1
      <3> QED BY <3>1 DEF FreshStore, Fresh, Last, Cell, Offset, readBlock
    <2>1. Fresh(q, Cell(b, i)) /\ store'[q] = store[q]
      BY <1>4
    <2> QED BY <1>5, <2>1 DEF FreshStore
  <1>7. Blk' = Blk /\ In' = In /\ Want' = Want
    BY <1>1 DEF Blk, In, Want, Here
  <1>8. FreshFrame'
    <2>1. CASE frame.pc \in {"download", "response", "fill", "copy", "store"}
      <3>1. /\ frame \in Frame /\ <<frame.off, frame.len>> \in Ranges /\ frame.p \in Paths
            /\ frame.done < frame.len
        BY <2>1, InFreshCall
      <3>2. ASSUME NEW i \in 1..kBlockSize, latest[frame.p][Cell(Blk, i)] > since'[frame.p]
            PROVE  Fresh(frame.p, Cell(Blk, i))
        BY <1>4, <3>1, <3>2, BlkCells
      <3>3. /\ frame.pc \in {"download", "response", "fill"} =>
                 \A i \in 1..kBlockSize : ~(latest[frame.p][Cell(Blk, i)] > since'[frame.p])
            /\ frame.pc = "copy" =>
                 \A i \in 1..kBlockSize : latest[frame.p][Cell(Blk, i)] > since'[frame.p] =>
                    i <= Len(frame.block) /\ frame.block[i] = Last(frame.p, Cell(Blk, i))
            /\ frame.pc = "store" =>
                 /\ Len(frame.block) = kBlockSize
                 /\ \A i \in 1..kBlockSize :
                      /\ InChunk(i) => frame.block[i] = <<writes, frame.p, Cell(Blk, i)>>
                      /\ ~InChunk(i) /\ latest[frame.p][Cell(Blk, i)] > since'[frame.p] =>
                            frame.block[i] = Last(frame.p, Cell(Blk, i))
        BY <1>5, <3>2 DEF FreshFrame
      <3> QED BY <1>1, <1>7, <3>3 DEF FreshFrame, Fresh, Last, Cell, Offset, InChunk
    <2>2. CASE frame.pc \notin {"download", "response", "fill", "copy", "store"}
      BY <1>1, <2>2 DEF FreshFrame
    <2> QED BY <2>1, <2>2
  <1>9. FreshOut'
    <2> SUFFICES ASSUME frame # Idle, frame.op = "read"
                 PROVE  /\ Len(frame.out) = frame.done
                        /\ \A i \in 1..Len(frame.out) :
                             latest[frame.p][frame.off + (i - 1)] > since'[frame.p] =>
                                frame.out[i] = Last(frame.p, frame.off + (i - 1))
      BY <1>1 DEF FreshOut, ReadRight, Fresh, Last
    <2>1. Len(frame.out) = frame.done /\ ReadRight(frame.out, frame.p, frame.off)
      BY <1>5 DEF FreshOut
    <2>2. frame.pc # "idle"
      BY DEF FreshAll, TypeAll, DiskInv, CallInv, Frame, CallPC
    <2>3. frame.p \in Paths /\ \A i \in 1..frame.done : frame.off + (i - 1) \in Cells
      BY <2>2, InFreshCall, ReadCells
    <2> QED BY <1>4, <2>1, <2>3 DEF ReadRight
  <1>10. FreshRet'
    <2> SUFFICES ASSUME ret.op = "read"
                 PROVE  /\ ret.p \in Paths /\ \A i \in 1..Len(ret.data) : ret.off + (i - 1) \in Cells
                        /\ \A i \in 1..Len(ret.data) :
                             latest[ret.p][ret.off + (i - 1)] > since'[ret.p] =>
                                ret.data[i] = Last(ret.p, ret.off + (i - 1))
      BY <1>1 DEF FreshRet, ReadRight, Fresh, Last, Cells
    <2> QED BY <1>4, <1>5 DEF FreshRet, ReadRight
  <1> QED BY <1>6, <1>8, <1>9, <1>10

(* A crash leaves the store as it is and no call in progress.              *)
LEMMA RestartedFresh ==
    ASSUME FreshAll, faults'["disk"] = 0 => faults["disk"] = 0, Restarted
    PROVE  FreshInv'
  <1>1. UNCHANGED <<store, latest, since>> /\ frame' = Idle /\ ret' = NoRet
    BY DEF Restarted, disk, history
  <1>2. FreshFrame' /\ FreshOut' /\ FreshRet'
    BY <1>1 DEF FreshFrame, FreshOut, FreshRet, Idle, NoRet
  <1>3. FreshStore => FreshStore'
    BY <1>1, FreshStoreKept
  <1> QED BY <1>2, <1>3 DEF FreshAll, FreshInv

(* Without a window a worker only takes tasks and puts them away.          *)
LEMMA WorkerFresh ==
    ASSUME FreshAll, faults'["disk"] = 0 => faults["disk"] = 0, NEW w \in Workers, PrefetchStep(w)
    PROVE  FreshInv'
  <1>1. wk[w].pc \in {"idle", "check"} /\ (wk[w].pc = "check" => wk[w].left = 0)
    BY DEF FreshAll, StillInv, Idle
  <1>2. ~(PrefetchCheck(w) \/ PrefetchDownload(w) \/ PrefetchResponse(w) \/ PrefetchFill(w)
          \/ PrefetchTouch(w))
    BY <1>1 DEF PrefetchCheck, PrefetchDownload, PrefetchResponse, PrefetchFill, PrefetchTouch
  <1>3. UNCHANGED <<store, frame, latest, since, writes, ret>>
    BY <1>2 DEF PrefetchStep, PrefetchTake, PrefetchDone, disk, history, counts
  <1> QED BY <1>3, FreshKept DEF FreshAll

(* The invariant is inductive.                                             *)
LEMMA NextFresh ==
    ASSUME PREFETCH_WINDOW = 0, FreshAll, [Next]_vars
    PROVE  FreshAll'
  <1>1. TypeAll' /\ CountsInv' /\ HistInv' /\ StillInv' /\ OpInv'
    BY NextTypes, NextCounts, NextHist, NextStill, NextOp DEF FreshAll, TypeAll
  <1>2. faults'["disk"] = 0 => faults["disk"] = 0
    BY NextCounts DEF FreshAll
  <1>3. FreshInv'
    <2>1. ASSUME UNCHANGED <<store, frame, latest, since, writes>>, UNCHANGED ret \/ ret' = NoRet
          PROVE  FreshInv'
      BY <1>2, <2>1, FreshKept DEF FreshAll
    <2>2. ASSUME NEW op \in {"read", "write"}, NEW p \in Paths, NEW r \in Ranges,
                 Begin(op, p, r[1], r[2])
          PROVE  FreshInv'
      BY <1>2, <2>2, BeginFresh
    <2>3. CASE CallStep
      <3>1. CASE Finish
        <4>1. /\ UNCHANGED <<store, latest, since>> /\ Return(frame.done)
              /\ frame.pc # "idle"
          BY <3>1 DEF Finish, disk, history
        <4> QED BY <1>2, <4>1, FreshReturn
      <3> QED BY <1>2, <2>3, <3>1, ReadStoreFresh, ReadDownloadFresh, ReadResponseFresh,
                 ReadFillFresh, ReadCopyFresh, WriteLoadFresh, WriteStoreFresh, WriteRestFresh
              DEF CallStep
    <2>4. CASE FlushAll \/ Cleanup
      BY <2>1, <2>4 DEF FlushAll, Cleanup, disk, history, counts
    <2>5. CASE Rest \/ UNCHANGED vars
      BY <2>1, <2>5 DEF Rest, vars, disk, history, counts
    <2>6. ASSUME NEW e \in Evictors, NEW n \in Limits, EvictBegin(e, n)
          PROVE  FreshInv'
      BY <2>1, <2>6 DEF EvictBegin, disk, history
    <2>7. ASSUME NEW e \in Evictors, EvictStep(e)
          PROVE  FreshInv'
      <3>1. CASE EvictDelete(e)
        BY <1>2, <3>1, EvictDeleteFresh
      <3>2. CASE EvictCheck(e) \/ EvictPop(e) \/ EvictFlush(e) \/ EvictMark(e)
        BY <2>1, <3>2 DEF EvictCheck, EvictPop, EvictFlush, EvictMark, disk, history, counts
      <3> QED BY <2>7, <3>1, <3>2 DEF EvictStep
    <2>8. ASSUME NEW w \in Workers, PrefetchStep(w)
          PROVE  FreshInv'
      BY <1>2, <2>8, WorkerFresh
    <2>9. CASE Restarted
      BY <1>2, <2>9, RestartedFresh
    <2>10. CASE Flushing
      BY <2>1, <2>10, FlushKeeps
    <2> QED BY <2>2, <2>3, <2>4, <2>5, <2>6, <2>7, <2>8, <2>9, <2>10
            DEF Next, Crash, EvictDies, Flushing
  <1> QED BY <1>1, <1>3 DEF FreshAll

(* Initially no cell is fresh.                                             *)
LEMMA InitFresh ==
    ASSUME Init
    PROVE  FreshAll
  <1>1. TypeAll /\ CountsInv
    BY InitTypes DEF Init, CountsInv
  <1>2. HistInv
    BY DEF Init, HistInv
  <1>3. StillInv /\ OpInv
    BY DEF Init, StillInv, OpInv
  <1>4. FreshFrame /\ FreshOut /\ FreshRet
    BY DEF Init, FreshFrame, FreshOut, FreshRet, Idle, NoRet
  <1>5. FreshStore
    <2>1. \A p \in Paths, c \in Cells : ~Fresh(p, c)
      BY DEF Init, Fresh
    <2> QED BY <2>1 DEF FreshStore
  <1> QED BY <1>1, <1>2, <1>3, <1>4, <1>5 DEF FreshAll, FreshInv

(* It has what a reader relies on.                                         *)
LEMMA FreshReads == FreshAll => ReadYourWrites
  BY DEF FreshAll, FreshInv, FreshRet, ReadRight, Fresh, Last, ReadYourWrites

(* A cache that does not prefetch (PREFETCH_WINDOW = 0 at                  *)
(* cache_manager.cc:193) returns to a read the last write of every cell, as*)
(* long as no file write failed and until the object is evicted, whatever  *)
(* else is evicted meanwhile and across crashes.                           *)
THEOREM ReadsSeeWrites == PREFETCH_WINDOW = 0 /\ Spec => []ReadYourWrites
  <1>1. ASSUME PREFETCH_WINDOW = 0
        PROVE  Spec => []ReadYourWrites
    <2>1. Init => FreshAll
      BY InitFresh
    <2>2. FreshAll /\ [Next]_vars => FreshAll'
      BY <1>1, NextFresh
    <2>3. FreshAll => ReadYourWrites
      BY FreshReads
    <2> QED BY <2>1, <2>2, <2>3, PTL DEF Spec
  <1> QED BY <1>1
=============================================================================
