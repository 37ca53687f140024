---------------------------- MODULE FileOpsProofs ---------------------------
(***************************************************************************)
(* What the file operations of FileOps return, for the proofs about the    *)
(* components that use them.                                               *)
(***************************************************************************)
EXTENDS FileOps, TLAPS

(* An element of a sequence.                                               *)
LEMMA SeqElement ==
    ASSUME NEW S, NEW f \in Seq(S), NEW i \in 1..Len(f)
    PROVE  f[i] \in S
  OBVIOUS

(* A clipped length is at most either bound.                               *)
LEMMA ClipBounds ==
    ASSUME NEW n \in Int, NEW len \in Nat
    PROVE  Clip(n, len) \in Nat /\ Clip(n, len) <= len /\ (n > 0 => Clip(n, len) <= n)
  BY DEF Clip

(* What pread delivers is what the file has there, and no more than asked. *)
LEMMA PreadAt ==
    ASSUME NEW S, NEW f \in Seq(S), NEW len \in Nat, NEW off \in Nat
    PROVE  /\ Len(pread(f, len, off)) = Clip(Len(f) - off, len)
           /\ Len(pread(f, len, off)) \in Nat /\ Len(pread(f, len, off)) <= len
           /\ \A i \in 1..Len(pread(f, len, off)) :
                off + i \in 1..Len(f) /\ pread(f, len, off)[i] = f[off + i]
           /\ \A i \in 1..len : off + i <= Len(f) => i \in 1..Len(pread(f, len, off))
  <1> DEFINE m == Clip(Len(f) - off, len)
             r == [i \in 1..m |-> f[off + i]]
  <1>1. /\ m \in Nat /\ m <= len /\ \A i \in 1..m : off + i \in 1..Len(f)
        /\ \A i \in 1..len : off + i <= Len(f) => i <= m
    BY DEF Clip
  <1>2. pread(f, len, off) = r
    BY DEF pread
  <1>3. Len(r) = m /\ \A i \in 1..m : r[i] = f[off + i]
    <2> HIDE DEF m
    <2> QED BY <1>1
  <1> HIDE DEF m, r
  <1> QED BY <1>1, <1>2, <1>3 DEF m

(* What pwrite leaves at a position, and the length of the file.           *)
LEMMA PwriteAt ==
    ASSUME NEW S, NEW f \in Seq(S), NEW data \in Seq(S), NEW off \in Nat
    PROVE  /\ Len(pwrite(f, data, off)) \in Nat
           /\ Len(f) <= Len(pwrite(f, data, off))
           /\ data # <<>> => off + Len(data) <= Len(pwrite(f, data, off))
           /\ \/ Len(pwrite(f, data, off)) = Len(f)
              \/ Len(pwrite(f, data, off)) = off + Len(data)
           /\ \A i \in 1..Len(data) : pwrite(f, data, off)[off + i] = data[i]
           /\ \A i \in 1..Len(f) :
                ~(i > off /\ i <= off + Len(data)) => pwrite(f, data, off)[i] = f[i]
           /\ \A i \in 1..Len(pwrite(f, data, off)) :
                ~(i > off /\ i <= off + Len(data)) /\ ~(i <= Len(f)) =>
                    pwrite(f, data, off)[i] = Zero
  <1>1. CASE data = <<>>
    BY <1>1 DEF pwrite
  <1>2. CASE data # <<>>
    <2> DEFINE m == IF Len(f) < off + Len(data) THEN off + Len(data) ELSE Len(f)
               at(i) == IF i > off /\ i <= off + Len(data) THEN data[i - off]
                        ELSE IF i <= Len(f) THEN f[i] ELSE Zero
               r == [i \in 1..m |-> at(i)]
    <2>1. pwrite(f, data, off) = r
      BY <1>2 DEF pwrite
    <2>2. /\ m \in Nat /\ Len(f) <= m /\ off + Len(data) <= m
          /\ m = Len(f) \/ m = off + Len(data)
      OBVIOUS
    <2>3. Len(r) = m /\ \A i \in 1..m : r[i] = at(i)
      <3> HIDE DEF at, m
      <3> QED BY <2>2
    <2> HIDE DEF m, r
    <2>4. ASSUME NEW i \in 1..Len(data) PROVE r[off + i] = data[i]
      <3>1. off + i \in 1..m /\ off + i > off /\ off + i <= off + Len(data) /\ (off + i) - off = i
        BY <2>2
      <3> QED BY <2>3, <3>1
    <2>5. ASSUME NEW i \in 1..Len(f), ~(i > off /\ i <= off + Len(data)) PROVE r[i] = f[i]
      <3>1. i \in 1..m /\ i <= Len(f)
        BY <2>2
      <3> QED BY <2>3, <2>5, <3>1
    <2>6. ASSUME NEW i \in 1..m, ~(i > off /\ i <= off + Len(data)), ~(i <= Len(f))
          PROVE  r[i] = Zero
      BY <2>3, <2>6
    <2> QED BY <2>1, <2>2, <2>3, <2>4, <2>5, <2>6
  <1> QED BY <1>1, <1>2

(* A file after a pwrite is a sequence of cells.                           *)
LEMMA PwriteSeq ==
    ASSUME NEW S, Zero \in S, NEW f \in Seq(S), NEW data \in Seq(S), NEW off \in Nat
    PROVE  pwrite(f, data, off) \in Seq(S)
  <1>1. CASE data = <<>>
    BY <1>1 DEF pwrite
  <1>2. CASE data # <<>>
    <2> DEFINE m == IF Len(f) < off + Len(data) THEN off + Len(data) ELSE Len(f)
               at(i) == IF i > off /\ i <= off + Len(data) THEN data[i - off]
                        ELSE IF i <= Len(f) THEN f[i] ELSE Zero
    <2>1. pwrite(f, data, off) = [i \in 1..m |-> at(i)]
      BY <1>2 DEF pwrite
    <2>2. m \in Nat
      OBVIOUS
    <2>3. ASSUME NEW i \in 1..m PROVE at(i) \in S
      <3>1. CASE i > off /\ i <= off + Len(data)
        <4>1. i - off \in 1..Len(data)
          BY <3>1
        <4> QED BY <3>1, <4>1, SeqElement
      <3>2. CASE ~(i > off /\ i <= off + Len(data)) /\ i <= Len(f)
        <4>1. i \in 1..Len(f)
          BY <3>2
        <4> QED BY <3>2, <4>1, SeqElement
      <3>3. CASE ~(i > off /\ i <= off + Len(data)) /\ ~(i <= Len(f))
        BY <2>2, <3>3
      <3> QED BY <3>1, <3>2, <3>3
    <2> HIDE DEF m, at
    <2> QED BY <2>1, <2>2, <2>3
  <1> QED BY <1>1, <1>2

(* What pread delivers is a sequence of the file's elements.               *)
LEMMA PreadSeq ==
    ASSUME NEW S, NEW f \in Seq(S), NEW len \in Nat, NEW off \in Nat
    PROVE  pread(f, len, off) \in Seq(S)
  <1> DEFINE m == Clip(Len(f) - off, len)
  <1>1. m \in Nat /\ \A i \in 1..m : off + i \in 1..Len(f)
    BY DEF Clip
  <1>2. pread(f, len, off) = [i \in 1..m |-> f[off + i]]
    BY DEF pread
  <1> HIDE DEF m
  <1>3. \A i \in 1..m : f[off + i] \in S
    BY <1>1, SeqElement
  <1> QED BY <1>1, <1>2, <1>3
=============================================================================
