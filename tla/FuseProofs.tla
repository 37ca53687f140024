----------------------------- MODULE FuseProofs -----------------------------
(***************************************************************************)
(* Proofs about the mounted filesystem, for any names, files, URLs, number *)
(* of threads, transfer size and number of lost connections.               *)
(***************************************************************************)
EXTENDS FuseProperties, FileOpsProofs, SequenceTheorems

-----------------------------------------------------------------------------
(* The inductive invariant for types and names.  A request that works on a *)
(* file names one that is there, because the kernel believes only names    *)
(* that were found; no lookup fails with ENOENT, so that nothing is ever   *)
(* created; a transfer belongs to the request of its thread.               *)

Item == Cells \cup Nat \cup BOOLEAN \cup {"name", "size", "is_directory", "error"}
Spot == Names \cup {"/"}

ReqRec == [st : {"sent", "call", "store"}, op : fuse_operations \ Creating, path : Spot,
           off : Nat, len : Nat, data : Seq(Cells), out : Seq(Cells)]

ReqOK(q, names, local) ==
    \/ q = Idle
    \/ /\ q \in ReqRec
       /\ q.op \in {"open", "read", "write"} => q.path \in names
       /\ q.op \in {"read", "write"} => q.len > 0
       /\ q.op = "write" => Len(q.data) = q.len
       /\ q.st = "call" => q.op \in {"getattr", "read", "write"} /\ ~local
       /\ q.st = "store" => q.op = "read" /\ local

SentRec == [st : {"sent"}, verb : {"GET", "PUT"}, endpoint : {"info", "data", Nowhere},
            path : Spot, len : Nat, off : Nat, data : Seq(Cells)]
BodyRec == [st : {"body"}, code : Nat, rest : Seq(Item), sized : BOOLEAN, buf : Seq(Item),
            len : Nat]
DoneRec == [st : {"done"}, code : Nat, cres : BOOLEAN, buf : Seq(Item), len : Nat]

SentFor(r, q, web) ==
    /\ r.path = q.path /\ r.verb = IF q.op = "write" THEN "PUT" ELSE "GET"
    /\ q.op = "read" => r.len = q.len /\ r.off = q.off /\ r.endpoint # "info"
    /\ q.op = "write" => r.len = q.len /\ r.data = q.data
    /\ q.op = "getattr" /\ web => r.len = InfoCap /\ r.endpoint # "data"

NetOK(r, q, web, names) ==
    \/ r = NoTransfer
    \/ /\ q.st = "call"
       /\ \/ r \in SentRec /\ SentFor(r, q, web)
          \/ r \in BodyRec /\ q.op # "write" /\ q.path \in Dirs \cup names
          \/ r \in DoneRec /\ (r.cres /\ ok_2xx(r.code) => q.path \in Dirs \cup names)

ThreadsInv ==
    /\ req = [t \in Threads |-> req[t]]
    /\ net = [t \in Threads |-> net[t]]
    /\ seen = [t \in Threads |-> seen[t]]

PhaseInv ==
    /\ phase \in {"start", "mounted", "exited", "dead"} /\ url \in Urls \cup {"none"}
    /\ phase = "start" => url = "none" /\ ret = NoRet /\ \A t \in Threads : req[t] = Idle
    /\ phase = "mounted" => url \in Urls
    /\ cacheDirectory \in {"own", "sibling"}
    /\ writes \in 0..MaxWrites /\ faults \in 0..MaxFaults

FilesInv == DOMAIN files \subseteq Names \ Dirs /\ \A p \in DOMAIN files : IsFile(files[p])

CopiesInv ==
    /\ DOMAIN copies \subseteq DOMAIN files /\ \A p \in DOMAIN copies : IsFile(copies[p])
    /\ evicted \subseteq DOMAIN copies
    /\ ~FileMode => DOMAIN copies = {}

KernelInv == known \subseteq Dirs \cup DOMAIN files /\ absent = {} /\ opened \subseteq DOMAIN files

ReqInv == \A t \in Threads : ReqOK(req[t], DOMAIN files, FileMode)
NetInv == \A t \in Threads : NetOK(net[t], req[t], httpMode, DOMAIN files)

NamesAll ==
    ThreadsInv /\ PhaseInv /\ FilesInv /\ CopiesInv /\ KernelInv /\ ReqInv /\ NetInv

-----------------------------------------------------------------------------
(* The data layer.                                                         *)

Placed(f, off) == \A i \in 1..Len(f) : f[i] = Zero \/ f[i][2] = off + i

PlaceInv ==
    /\ url \in {"none", "file/", "file"} => \A p \in DOMAIN files : Placed(files[p], 0)
    /\ \A p \in DOMAIN copies : Placed(copies[p], 0)
    /\ \A t \in Threads : /\ req[t].op = "write" => Placed(req[t].data, req[t].off)
                          /\ req[t].st = "store" => Placed(req[t].out, req[t].off)

SeenInv ==
    \A t \in Threads :
        /\ \A v \in seen[t] : IsFile(v)
        /\ Active(t) /\ req[t].path \in DOMAIN files => files[req[t].path] \in seen[t]

\* The whole answers that a request for q may get, if the file had the
\* contents vs meanwhile.
Description(dir, n) == <<"name", "size", n, "is_directory", dir>>
Sizes(q, vs) == IF q.path \in Dirs THEN {0} ELSE {Len(v) : v \in vs}
Bodies(q, vs) ==
    IF q.op = "read" THEN {pread(v, q.len, q.off) : v \in vs}
    ELSE {Description(q.path \in Dirs, n) : n \in Sizes(q, vs)}

\* buf is the beginning of body, and rest is what follows.
Split(buf, rest, body) ==
    /\ Len(buf) + Len(rest) = Len(body)
    /\ \A i \in 1..Len(buf) : buf[i] = body[i]
    /\ \A i \in 1..Len(rest) : rest[i] = body[Len(buf) + i]

Begins(buf, body) == Len(buf) <= Len(body) /\ \A i \in 1..Len(buf) : buf[i] = body[i]

NetHolds(r, q, web, vs, whole) ==
    /\ r.st = "body" /\ (q.op = "read" \/ web) =>
         /\ Len(r.buf) + Len(r.rest) <= r.len /\ (q.op = "read" => r.sized)
         /\ \E body \in Bodies(q, vs) : Split(r.buf, r.rest, body)
    /\ r.st = "done" /\ r.cres /\ ok_2xx(r.code) =>
         /\ q.op = "read" => r.buf \in Bodies(q, vs)
         /\ q.op = "write" => r.len = q.len /\ q.data \in vs
         /\ q.op = "getattr" /\ web =>
              \E body \in Bodies(q, vs) :
                Begins(r.buf, body) /\ (whole => Len(r.buf) = Len(body))

NetData == \A t \in Threads : NetHolds(net[t], req[t], httpMode, seen[t], faults = 0)

StoreData ==
    \A t \in Threads : req[t].st = "store" =>
        \E v \in seen[t] : req[t].out = pread(v, req[t].len, req[t].off)

RetInv ==
    /\ ret = NoRet \/ ret.by \in Threads
    /\ ReadIsSnapshot /\ AckedWriteApplied /\ AttributesAreTrue

DataAll == NamesAll /\ PlaceInv /\ SeenInv /\ NetData /\ StoreData /\ RetInv /\ Survives

-----------------------------------------------------------------------------
(* Updates of one thread's request and transfer.                           *)

(* A request that is being worked on.                                      *)
LEMMA Working ==
    ASSUME NamesAll, NEW t \in Threads, req[t].st # "idle"
    PROVE  /\ req[t] \in ReqRec /\ req[t] # Idle
           /\ req[t].op \in {"open", "read", "write"} => req[t].path \in DOMAIN files
           /\ req[t].op \in {"read", "write"} => req[t].len > 0
           /\ req[t].op = "write" => Len(req[t].data) = req[t].len
           /\ req[t].st = "call" => req[t].op \in {"getattr", "read", "write"} /\ ~FileMode
           /\ req[t].st = "store" => req[t].op = "read" /\ FileMode
           /\ req[t].st # "call" => net[t] = NoTransfer
  <1>1. ReqOK(req[t], DOMAIN files, FileMode) /\ NetOK(net[t], req[t], httpMode, DOMAIN files)
    BY DEF NamesAll, ReqInv, NetInv
  <1>2. req[t] # Idle
    BY DEF Idle
  <1> QED BY <1>1, <1>2 DEF ReqOK, NetOK

(* A thread's request is replaced by one that is well formed.              *)
LEMMA ReqUpdate ==
    ASSUME ThreadsInv, ReqInv, NEW t \in Threads, NEW q, req' = [req EXCEPT ![t] = q],
           DOMAIN files' = DOMAIN files, UNCHANGED url, ReqOK(q, DOMAIN files, FileMode)
    PROVE  /\ ReqInv' /\ req' = [u \in Threads |-> req'[u]] /\ req'[t] = q
           /\ \A u \in Threads : u # t => req'[u] = req[u]
  <1>1. /\ req' = [u \in Threads |-> req'[u]] /\ req'[t] = q
        /\ \A u \in Threads : u # t => req'[u] = req[u]
    BY DEF ThreadsInv
  <1>2. FileMode' <=> FileMode
    BY DEF FileMode
  <1>3. ASSUME NEW u \in Threads PROVE ReqOK(req'[u], DOMAIN files, FileMode)
    BY <1>1 DEF ReqInv
  <1>4. ReqInv'
    BY <1>2, <1>3 DEF ReqInv, ReqOK
  <1> QED BY <1>1, <1>4

(* A thread's transfer is replaced by one that fits its request.           *)
LEMMA NetUpdate ==
    ASSUME ThreadsInv, NetInv, NEW t \in Threads, NEW r, net' = [net EXCEPT ![t] = r],
           DOMAIN files' = DOMAIN files, UNCHANGED url,
           \A u \in Threads : u # t => req'[u] = req[u],
           NetOK(r, req'[t], httpMode, DOMAIN files)
    PROVE  /\ NetInv' /\ net' = [u \in Threads |-> net'[u]] /\ net'[t] = r
           /\ \A u \in Threads : u # t => net'[u] = net[u]
  <1>1. /\ net' = [u \in Threads |-> net'[u]] /\ net'[t] = r
        /\ \A u \in Threads : u # t => net'[u] = net[u]
    BY DEF ThreadsInv
  <1>2. httpMode' <=> httpMode
    BY DEF httpMode
  <1>3. ASSUME NEW u \in Threads PROVE NetOK(net'[u], req'[u], httpMode, DOMAIN files)
    BY <1>1 DEF NetInv
  <1>4. NetInv'
    BY <1>2, <1>3 DEF NetInv, NetOK, SentFor
  <1> QED BY <1>1, <1>4

(* An answer leaves the thread idle, and the kernel believes only names    *)
(* that are there.                                                         *)
LEMMA AnswerNames ==
    ASSUME NamesAll, NEW t \in Threads, NEW res, NEW out, Answer(t, res, out),
           req[t].st # "idle", DOMAIN files' = DOMAIN files, UNCHANGED url,
           net' = [net EXCEPT ![t] = NoTransfer] \/ (UNCHANGED net /\ net[t] = NoTransfer),
           req[t].op = "getattr" => res # ENOENT,
           req[t].op = "getattr" /\ res = 0 => req[t].path \in Dirs \cup DOMAIN files
    PROVE  /\ KernelInv' /\ ReqInv' /\ NetInv'
           /\ req' = [u \in Threads |-> req'[u]] /\ net' = [u \in Threads |-> net'[u]]
  <1>1. ThreadsInv /\ ReqInv /\ NetInv /\ KernelInv
    BY DEF NamesAll
  <1>2. req' = [req EXCEPT ![t] = Idle] /\ ReqOK(Idle, DOMAIN files, FileMode)
    BY DEF Answer, ReqOK
  <1>3. /\ ReqInv' /\ req' = [u \in Threads |-> req'[u]] /\ req'[t] = Idle
        /\ \A u \in Threads : u # t => req'[u] = req[u]
    BY <1>1, <1>2, ReqUpdate
  <1>4. net' = [net EXCEPT ![t] = NoTransfer]
    BY <1>1 DEF ThreadsInv
  <1>5. NetOK(NoTransfer, req'[t], httpMode, DOMAIN files)
    BY DEF NetOK
  <1>6. NetInv' /\ net' = [u \in Threads |-> net'[u]]
    BY <1>1, <1>3, <1>4, <1>5, NetUpdate
  <1>7. /\ req[t].op \notin Creating /\ (req[t].op = "open" => req[t].path \in DOMAIN files)
    BY Working DEF ReqRec
  <1>8. KernelInv'
    <2> DEFINE op == req[t].op
               p == req[t].path
    <2>1. /\ known' = KnownAfter(known, op, p, res) /\ absent' = AbsentAfter(absent, op, p, res)
          /\ opened' = OpenedAfter(opened, op, p, res)
      BY DEF Answer
    <2>2. /\ op \notin {"create", "mkdir"} /\ (op = "open" => p \in DOMAIN files)
          /\ (op = "getattr" => res # ENOENT)
          /\ (op = "getattr" /\ res = 0 => p \in Dirs \cup DOMAIN files)
      BY <1>7 DEF Creating
    <2> HIDE DEF op, p
    <2>3. known' \subseteq Dirs \cup DOMAIN files
      BY <1>1, <2>1, <2>2 DEF KernelInv, KnownAfter
    <2>4. absent' = {}
      BY <1>1, <2>1, <2>2 DEF KernelInv, AbsentAfter
    <2>5. opened' \subseteq DOMAIN files
      BY <1>1, <2>1, <2>2 DEF KernelInv, OpenedAfter
    <2> QED BY <2>3, <2>4, <2>5 DEF KernelInv
  <1> QED BY <1>3, <1>6, <1>8

(* A handler that answers and leaves the files and the copies alone.       *)
LEMMA QuietAnswer ==
    ASSUME NamesAll, NEW t \in Threads, NEW res, NEW out, Answer(t, res, out),
           phase = "mounted", req[t].st # "idle", UNCHANGED <<phase, url, files, copies, seen, writes>>,
           UNCHANGED faults,
           net' = [net EXCEPT ![t] = NoTransfer] \/ (UNCHANGED net /\ net[t] = NoTransfer),
           cacheDirectory' \in {"own", "sibling"}, evicted' \subseteq DOMAIN copies,
           req[t].op = "getattr" => res # ENOENT,
           req[t].op = "getattr" /\ res = 0 => req[t].path \in Dirs \cup DOMAIN files
    PROVE  NamesAll'
  <1>1. /\ KernelInv' /\ ReqInv' /\ NetInv'
        /\ req' = [u \in Threads |-> req'[u]] /\ net' = [u \in Threads |-> net'[u]]
    BY AnswerNames
  <1>2. ThreadsInv'
    BY <1>1 DEF NamesAll, ThreadsInv
  <1>3. PhaseInv'
    BY DEF NamesAll, PhaseInv
  <1>4. FilesInv' /\ CopiesInv'
    BY DEF NamesAll, FilesInv, CopiesInv, FileMode
  <1> QED BY <1>1, <1>2, <1>3, <1>4 DEF NamesAll

-----------------------------------------------------------------------------
(* Types and names through the handlers that answer at once.               *)

(* What a handler finds.                                                   *)
LEMMA Handling ==
    ASSUME NamesAll, NEW t \in Threads, NEW ops, Handles(t, ops)
    PROVE  /\ phase = "mounted" /\ req[t].st = "sent" /\ req[t].op \in ops
           /\ net[t] = NoTransfer /\ req[t] \in ReqRec
           /\ req[t].op \in {"open", "read", "write"} => req[t].path \in DOMAIN files
  <1>1. phase = "mounted" /\ req[t].st = "sent" /\ req[t].op \in ops
    BY DEF Handles
  <1> QED BY <1>1, Working

(* The handlers that change no file.                                       *)
LEMMA DispatchNames ==
    ASSUME NamesAll, NEW t \in Threads,
           Dispatch(t) \/ DispatchName(t) \/ HideOpen(t) \/ releaseFiles(t)
    PROVE  NamesAll'
  <1>1. PICK ops : Handles(t, ops) /\ "getattr" \notin ops
    BY DEF Dispatch, DispatchName, HideOpen, releaseFiles
  <1>2. /\ phase = "mounted" /\ req[t].st # "idle" /\ req[t].op # "getattr" /\ net[t] = NoTransfer
    BY <1>1, Handling
  <1>3. UNCHANGED <<phase, url, files, copies, seen, writes, faults, net>>
    BY DEF Dispatch, DispatchName, HideOpen, releaseFiles, cache, remote, counts
  <1>4. cacheDirectory' \in {"own", "sibling"}
    BY DEF Dispatch, DispatchName, HideOpen, releaseFiles, dirs, realCachePath, NamesAll, PhaseInv
  <1>5. evicted' \subseteq DOMAIN copies
    BY DEF Dispatch, DispatchName, HideOpen, releaseFiles, cache, NamesAll, CopiesInv
  <1>6. \E res, out : Answer(t, res, out)
    BY DEF Dispatch, DispatchName, HideOpen, releaseFiles
  <1>7. PICK res, out : Answer(t, res, out)
    BY <1>6
  <1> QED BY <1>2, <1>3, <1>4, <1>5, <1>7, QuietAnswer

(* A lookup in the remote directory.                                       *)
LEMMA AttributeFileNames ==
    ASSUME NamesAll, NEW t \in Threads, getAttributeFile(t)
    PROVE  NamesAll'
  <1>1. Handles(t, {"getattr"}) /\ UNCHANGED <<phase, url, cacheDirectory, files, copies, evicted, seen, writes, faults, net>>
    BY DEF getAttributeFile, cache, remote, counts, dirs
  <1>2. phase = "mounted" /\ req[t].st # "idle" /\ net[t] = NoTransfer
    BY <1>1, Handling
  <1>3. cacheDirectory' \in {"own", "sibling"} /\ evicted' \subseteq DOMAIN copies
    BY <1>1 DEF NamesAll, PhaseInv, CopiesInv
  <1>4. CASE isFile(req[t].path)
    <2>0. ~isDir(req[t].path)
      BY <1>4 DEF isFile, isDir, NamesAll, FilesInv
    <2>1. Answer(t, 0, Attributes(FALSE, Len(files[req[t].path])))
      BY <1>4, <2>0 DEF getAttributeFile
    <2>2. req[t].path \in Dirs \cup DOMAIN files /\ 0 # ENOENT
      BY <1>4 DEF isFile, ENOENT
    <2> QED BY <1>1, <1>2, <1>3, <2>1, <2>2, QuietAnswer
  <1>5. CASE ~isFile(req[t].path) /\ isDir(req[t].path)
    <2>1. Answer(t, 0, Attributes(TRUE, 0))
      BY <1>5 DEF getAttributeFile
    <2>2. req[t].path \in Dirs \cup DOMAIN files /\ 0 # ENOENT
      BY <1>5 DEF isDir, ENOENT
    <2> QED BY <1>1, <1>2, <1>3, <2>1, <2>2, QuietAnswer
  <1>6. CASE ~isFile(req[t].path) /\ ~isDir(req[t].path)
    <2>1. Answer(t, Error, <<>>)
      BY <1>6 DEF getAttributeFile
    <2>2. Error # ENOENT /\ Error # 0
      BY DEF Error, ENOENT
    <2> QED BY <1>1, <1>2, <1>3, <2>1, <2>2, QuietAnswer
  <1> QED BY <1>4, <1>5, <1>6

(* A read of the remote directory.                                         *)
LEMMA ReadFileNames ==
    ASSUME NamesAll, NEW t \in Threads, readFileFile(t)
    PROVE  NamesAll'
  <1>1. /\ Handles(t, {"read"}) /\ FileMode
        /\ UNCHANGED <<phase, url, cacheDirectory, files, copies, evicted, seen, writes, faults, net>>
    BY DEF readFileFile, cache, remote, counts, dirs
  <1>2. /\ phase = "mounted" /\ req[t].st = "sent" /\ req[t].op = "read" /\ net[t] = NoTransfer
        /\ req[t] \in ReqRec /\ req[t].path \in DOMAIN files
    BY <1>1, Handling
  <1>3. cacheDirectory' \in {"own", "sibling"} /\ evicted' \subseteq DOMAIN copies
    BY <1>1 DEF NamesAll, PhaseInv, CopiesInv
  <1>4. CASE Answer(t, Error, <<>>)
    BY <1>1, <1>2, <1>3, <1>4, QuietAnswer
  <1>5. CASE /\ req' = [req EXCEPT ![t].st = "store",
                          ![t].out = pread(files[req[t].path], req[t].len, req[t].off)]
             /\ UNCHANGED <<kernel, ret>>
    <2> DEFINE o == pread(files[req[t].path], req[t].len, req[t].off)
               q == [req[t] EXCEPT !.st = "store", !.out = o]
    <2>1. ThreadsInv /\ ReqInv /\ NetInv
      BY DEF NamesAll
    <2>2. req' = [req EXCEPT ![t] = q]
      BY <1>5, <2>1 DEF ThreadsInv
    <2>3. o \in Seq(Cells)
      <3>1. files[req[t].path] \in Seq(Cells) /\ req[t].len \in Nat /\ req[t].off \in Nat
        BY <1>2 DEF NamesAll, FilesInv, IsFile, ReqRec
      <3> QED BY <3>1, PreadSeq
    <2> HIDE DEF o
    <2>4. ReqOK(q, DOMAIN files, FileMode)
      <3>1. q \in ReqRec /\ q.st = "store" /\ q.op = req[t].op /\ q.path = req[t].path
            /\ q.len = req[t].len
        BY <1>2, <2>3 DEF ReqRec
      <3>2. req[t].len > 0
        BY <1>2, Working
      <3> HIDE DEF q
      <3> QED BY <1>1, <1>2, <3>1, <3>2 DEF ReqOK
    <2> HIDE DEF q
    <2>5. /\ ReqInv' /\ req' = [u \in Threads |-> req'[u]] /\ req'[t] = q
          /\ \A u \in Threads : u # t => req'[u] = req[u]
      BY <1>1, <2>1, <2>2, <2>4, ReqUpdate
    <2>6. net' = [net EXCEPT ![t] = NoTransfer] /\ NetOK(NoTransfer, req'[t], httpMode, DOMAIN files)
      BY <1>1, <1>2, <2>1 DEF ThreadsInv, NetOK
    <2>7. NetInv'
      BY <1>1, <2>1, <2>5, <2>6, NetUpdate
    <2>8. ThreadsInv' /\ PhaseInv' /\ FilesInv' /\ CopiesInv'
      BY <1>1, <1>2, <2>5 DEF NamesAll, ThreadsInv, PhaseInv, FilesInv, CopiesInv, FileMode
    <2>9. KernelInv'
      BY <1>1, <1>5 DEF NamesAll, KernelInv, kernel
    <2> QED BY <2>5, <2>7, <2>8, <2>9 DEF NamesAll
  <1> QED BY <1>4, <1>5 DEF readFileFile

(* The cells of a file after a pwrite.                                     *)
LEMMA PwriteFile ==
    ASSUME NEW f, IsFile(f), NEW data \in Seq(Cells), NEW off \in Nat
    PROVE  IsFile(pwrite(f, data, off))
  <1>1. Zero \in Cells
    BY DEF Cells
  <1> QED BY <1>1, PwriteSeq DEF IsFile

(* What was read is put into the copy.                                     *)
LEMMA StoreNames ==
    ASSUME NamesAll, NEW t \in Threads, readFileStore(t)
    PROVE  NamesAll'
  <1> DEFINE p == req[t].path
             f == pwrite(Content(copies, p), req[t].out, req[t].off)
  <1>1. /\ phase = "mounted" /\ req[t].st = "store"
        /\ copies' = cache_store_file(p, req[t].out, req[t].off)
        /\ Answer(t, Len(req[t].out), req[t].out)
        /\ UNCHANGED <<phase, url, cacheDirectory, evicted, files, net, faults, seen, writes>>
    BY DEF readFileStore, remote, counts, dirs
  <1>2. /\ req[t] \in ReqRec /\ req[t].op = "read" /\ p \in DOMAIN files /\ FileMode
        /\ net[t] = NoTransfer
    BY <1>1, Working
  <1>3. IsFile(f)
    <2>1. IsFile(Content(copies, p))
      BY DEF NamesAll, CopiesInv, Content, IsFile
    <2> QED BY <1>2, <2>1, PwriteFile DEF ReqRec
  <1>4. copies' = copies \/ copies' = Stored(copies, p, f)
    BY <1>1 DEF cache_store_file
  <1> HIDE DEF p, f
  <1>5. /\ DOMAIN copies' \subseteq DOMAIN files /\ \A q \in DOMAIN copies' : IsFile(copies'[q])
        /\ DOMAIN copies \subseteq DOMAIN copies'
    BY <1>2, <1>3, <1>4 DEF NamesAll, CopiesInv, Stored
  <1>6. CopiesInv'
    BY <1>1, <1>2, <1>5 DEF NamesAll, CopiesInv, FileMode, IsFile
  <1>7. /\ KernelInv' /\ ReqInv' /\ NetInv'
        /\ req' = [u \in Threads |-> req'[u]] /\ net' = [u \in Threads |-> net'[u]]
    BY <1>1, <1>2, AnswerNames
  <1>8. ThreadsInv' /\ PhaseInv' /\ FilesInv'
    BY <1>1, <1>7 DEF NamesAll, ThreadsInv, PhaseInv, FilesInv
  <1> QED BY <1>6, <1>7, <1>8 DEF NamesAll

(* A file keeps its name when it is given another content.                 *)
LEMMA FilesChange ==
    ASSUME NamesAll, NEW p \in DOMAIN files, NEW f, IsFile(f), files' = Stored(files, p, f),
           UNCHANGED <<copies, evicted, url>>
    PROVE  DOMAIN files' = DOMAIN files /\ FilesInv' /\ CopiesInv'
  <1>1. /\ DOMAIN files' = DOMAIN files /\ files'[p] = f
        /\ \A q \in DOMAIN files : q # p => files'[q] = files[q]
    BY DEF Stored
  <1>2. FilesInv'
    BY <1>1 DEF NamesAll, FilesInv, IsFile
  <1>3. CopiesInv'
    BY <1>1 DEF NamesAll, CopiesInv, FileMode
  <1> QED BY <1>1, <1>2, <1>3

(* A write to the remote directory.                                        *)
LEMMA WriteFileNames ==
    ASSUME NamesAll, NEW t \in Threads, writeFileFile(t)
    PROVE  NamesAll'
  <1> DEFINE p == req[t].path
             f == pwrite(Content(files, p), req[t].data, req[t].off)
  <1>1. /\ Handles(t, {"write"}) /\ Noted
        /\ UNCHANGED <<phase, url, cacheDirectory, copies, evicted, net, faults, writes>>
        /\ UNCHANGED files \/ files' = Stored(files, p, f)
        /\ \E res : Answer(t, res, <<>>)
    BY DEF writeFileFile, cache, counts, dirs
  <1>2. /\ phase = "mounted" /\ req[t].st # "idle" /\ req[t].op = "write" /\ net[t] = NoTransfer
        /\ req[t] \in ReqRec /\ p \in DOMAIN files
    BY <1>1, Handling
  <1>3. IsFile(f)
    <2>1. IsFile(Content(files, p))
      BY DEF NamesAll, FilesInv, Content, IsFile
    <2> QED BY <1>2, <2>1, PwriteFile DEF ReqRec
  <1> HIDE DEF p, f
  <1>4. DOMAIN files' = DOMAIN files /\ FilesInv' /\ CopiesInv'
    <2>1. CASE UNCHANGED files
      BY <1>1, <2>1 DEF NamesAll, FilesInv, CopiesInv, FileMode
    <2>2. CASE files' = Stored(files, p, f)
      BY <1>1, <1>2, <1>3, <2>2, FilesChange
    <2> QED BY <1>1, <2>1, <2>2
  <1>5. PICK res : Answer(t, res, <<>>)
    BY <1>1
  <1>6. /\ KernelInv' /\ ReqInv' /\ NetInv'
        /\ req' = [u \in Threads |-> req'[u]] /\ net' = [u \in Threads |-> net'[u]]
    BY <1>1, <1>2, <1>4, <1>5, AnswerNames
  <1>7. ThreadsInv' /\ PhaseInv'
    BY <1>1, <1>2, <1>6 DEF NamesAll, ThreadsInv, PhaseInv, Noted
  <1> QED BY <1>4, <1>6, <1>7 DEF NamesAll

-----------------------------------------------------------------------------
(* Types and names through the life of the process and of its requests.    *)

(* The start and the end of the process.                                   *)
LEMMA MainNames ==
    ASSUME NamesAll, Main \/ Unmount
    PROVE  NamesAll'
  <1>1. /\ UNCHANGED <<cacheDirectory, copies, evicted, known, absent, opened, files, net, faults>>
        /\ UNCHANGED <<req, ret, seen, writes>>
        /\ phase' \in {"mounted", "exited"} /\ (phase' = "mounted" => url' \in Urls)
        /\ UNCHANGED url \/ (phase = "start" /\ url' \in Urls)
    BY DEF Main, Unmount, fuse_main, dirs, cache, kernel, remote, counts
  <1>2. ThreadsInv' /\ FilesInv' /\ KernelInv'
    BY <1>1 DEF NamesAll, ThreadsInv, FilesInv, KernelInv
  <1>3. PhaseInv'
    BY <1>1 DEF NamesAll, PhaseInv
  <1>4. CASE UNCHANGED url
    BY <1>1, <1>2, <1>3, <1>4 DEF NamesAll, CopiesInv, ReqInv, NetInv, ReqOK, NetOK, SentFor,
      FileMode, httpMode
  <1>5. CASE phase = "start"
    <2>1. \A t \in Threads : req[t] = Idle /\ Idle.st # "call"
      BY <1>5 DEF NamesAll, PhaseInv, Idle
    <2>2. ReqInv'
      BY <1>1, <2>1 DEF ReqInv, ReqOK
    <2>3. NetInv'
      BY <1>1, <2>1 DEF NamesAll, NetInv, NetOK
    <2>4. url = "none" /\ DOMAIN copies = {}
      BY <1>5 DEF NamesAll, PhaseInv, CopiesInv, FileMode
    <2>5. CopiesInv'
      BY <1>1, <2>4 DEF NamesAll, CopiesInv
    <2> QED BY <1>2, <1>3, <2>2, <2>3, <2>5 DEF NamesAll
  <1> QED BY <1>1, <1>4, <1>5

(* A request that names what is there.                                     *)
LEMMA SendNames ==
    ASSUME NamesAll, NEW t \in Threads, NEW r, Send(t, r), writes' \in 0..MaxWrites,
           ReqOK(r, DOMAIN files, FileMode)
    PROVE  NamesAll'
  <1>1. /\ phase = "mounted" /\ req[t] = Idle /\ req' = [req EXCEPT ![t] = r]
        /\ UNCHANGED <<phase, url, cacheDirectory, copies, evicted, known, absent, opened>>
        /\ UNCHANGED <<files, net, faults>>
        /\ seen' = [u \in Threads |-> IF u = t THEN Versions(files, r.path)
                                      ELSE IF Active(u) THEN seen[u] ELSE {}]
    BY DEF Send, Active, dirs, cache, kernel, remote
  <1>2. ThreadsInv /\ ReqInv /\ NetInv
    BY DEF NamesAll
  <1>3. net[t] = NoTransfer
    BY <1>1, <1>2 DEF NetInv, NetOK, Idle
  <1>4. /\ ReqInv' /\ req' = [u \in Threads |-> req'[u]] /\ req'[t] = r
        /\ \A u \in Threads : u # t => req'[u] = req[u]
    BY <1>1, <1>2, ReqUpdate
  <1>5. net' = [net EXCEPT ![t] = NoTransfer] /\ NetOK(NoTransfer, req'[t], httpMode, DOMAIN files)
    BY <1>1, <1>2, <1>3 DEF ThreadsInv, NetOK
  <1>6. NetInv'
    BY <1>1, <1>2, <1>4, <1>5, NetUpdate
  <1>7. ThreadsInv'
    BY <1>1, <1>2, <1>4 DEF ThreadsInv
  <1>8. PhaseInv' /\ FilesInv' /\ CopiesInv' /\ KernelInv'
    BY <1>1 DEF NamesAll, PhaseInv, FilesInv, CopiesInv, KernelInv, FileMode
  <1> QED BY <1>4, <1>6, <1>7, <1>8 DEF NamesAll

(* The parameters of a new request.                                        *)
LEMMA NewRequest ==
    ASSUME NEW op \in fuse_operations \ Creating, NEW p \in Spot, NEW off \in Nat, NEW len \in Nat
    PROVE  /\ ReqFor(op, p, off, len) \in ReqRec
           /\ ReqFor(op, p, off, len).st = "sent" /\ ReqFor(op, p, off, len).op = op
           /\ ReqFor(op, p, off, len).path = p /\ ReqFor(op, p, off, len).len = len
           /\ ReqFor(op, p, off, len).off = off
  <1>1. <<>> \in Seq(Cells)
    OBVIOUS
  <1>2. ReqFor(op, p, off, len) \in ReqRec
    BY <1>1 DEF ReqFor, Idle, ReqRec
  <1>3. /\ ReqFor(op, p, off, len).st = "sent" /\ ReqFor(op, p, off, len).op = op
        /\ ReqFor(op, p, off, len).path = p /\ ReqFor(op, p, off, len).len = len
        /\ ReqFor(op, p, off, len).off = off
    BY DEF ReqFor, Idle
  <1> QED BY <1>2, <1>3

(* What the kernel asks for follows from what it was answered: nothing is  *)
(* created, and only files that are there are opened, read or written.     *)
LEMMA KernelNames ==
    ASSUME NamesAll, NEW t \in Threads, Kernel(t)
    PROVE  NamesAll'
  <1>1. writes \in 0..MaxWrites /\ MaxWrites \in Nat
    BY FuseAssumption DEF NamesAll, PhaseInv
  <1>2. Usable \subseteq DOMAIN files /\ DOMAIN files \subseteq Names \ Dirs
    BY DEF NamesAll, KernelInv, FilesInv, Usable
  <1>3. \A r \in Ranges : r[1] \in Nat /\ r[2] \in Nat /\ r[2] > 0
    BY FuseAssumption
  <1>4. CASE SendName(t)
    <2>1. PICK op \in Ops : \E p \in Targets(op) : Send(t, ReqFor(op, p, 0, 0))
      BY <1>4 DEF SendName
    <2>2. PICK p \in Targets(op) : Send(t, ReqFor(op, p, 0, 0))
      BY <2>1
    <2>3. op \in fuse_operations /\ op \notin {"read", "write"}
      BY FuseAssumption
    <2>4. op \notin Creating /\ (op = "open" => p \in DOMAIN files) /\ p \in Spot
      <3>1. known \subseteq Dirs \cup DOMAIN files /\ absent = {} /\ Dirs \subseteq Names
        BY FuseAssumption DEF NamesAll, KernelInv
      <3>2. op \notin Creating
        <4>1. ASSUME op \in Creating PROVE Targets(op) = absent
          BY <4>1 DEF Targets, Creating, OnDirectory, OnOpenFile, RangeOperations
        <4> QED BY <3>1, <4>1
      <3>3. op = "open" => Targets(op) = known \ Dirs
        BY DEF Targets, Creating, OnDirectory, OnOpenFile, RangeOperations
      <3>4. Targets(op) \subseteq Spot
        <4>1. CASE op = "getattr"
          BY <4>1 DEF Targets, Creating, OnDirectory, OnOpenFile, RangeOperations, Spot
        <4>2. CASE op \in OnDirectory
          BY <3>1, <4>2, <1>2 DEF Targets, Creating, OnDirectory, OnOpenFile, RangeOperations, Spot
        <4>3. CASE op \in OnOpenFile
          BY <1>2, <4>3 DEF Targets, Creating, OnDirectory, OnOpenFile, RangeOperations, Spot
        <4>4. CASE op = "release"
          BY <1>2, <4>4 DEF Targets, Creating, OnDirectory, OnOpenFile, RangeOperations, Spot
        <4>5. CASE op = "statfs"
          BY <4>5 DEF Targets, Creating, OnDirectory, OnOpenFile, RangeOperations, Spot
        <4>6. CASE op \notin {"getattr", "release", "statfs"} \cup OnDirectory \cup OnOpenFile
          BY <1>2, <3>1, <3>2, <4>6 DEF Targets, Spot
        <4> QED BY <4>1, <4>2, <4>3, <4>4, <4>5, <4>6
      <3> QED BY <3>1, <3>2, <3>3, <3>4
    <2>5. ReqOK(ReqFor(op, p, 0, 0), DOMAIN files, FileMode)
      <3>1. /\ ReqFor(op, p, 0, 0) \in ReqRec /\ ReqFor(op, p, 0, 0).op = op
            /\ ReqFor(op, p, 0, 0).path = p /\ ReqFor(op, p, 0, 0).st = "sent"
        BY <2>3, <2>4, NewRequest
      <3> QED BY <2>3, <2>4, <3>1 DEF ReqOK
    <2>6. writes' \in 0..MaxWrites
      BY <1>1, <1>4 DEF SendName
    <2> QED BY <2>2, <2>5, <2>6, SendNames
  <1>5. CASE SendRead(t)
    <2>1. PICK p \in Usable, r \in Ranges : Send(t, ReqFor("read", p, r[1], r[2]))
      BY <1>5 DEF SendRead
    <2> DEFINE q == ReqFor("read", p, r[1], r[2])
    <2>2. /\ q \in ReqRec /\ q.op = "read" /\ q.path = p /\ q.st = "sent" /\ q.len > 0
      <3>1. /\ "read" \in fuse_operations \ Creating /\ p \in Spot
            /\ r[1] \in Nat /\ r[2] \in Nat /\ r[2] > 0
        BY <1>2, <1>3, <2>1 DEF Spot, fuse_operations, FileOperations, Creating
      <3> QED BY <3>1, NewRequest
    <2> HIDE DEF q
    <2>3. ReqOK(q, DOMAIN files, FileMode)
      BY <1>2, <2>2 DEF ReqOK
    <2>4. writes' \in 0..MaxWrites
      BY <1>1, <1>5 DEF SendRead
    <2> QED BY <2>1, <2>3, <2>4, SendNames DEF q
  <1>6. CASE SendWrite(t)
    <2>1. PICK p \in Usable, r \in Ranges :
            Send(t, [ReqFor("write", p, r[1], r[2]) EXCEPT
                      !.data = [i \in 1..r[2] |-> <<writes', r[1] + i>>]])
      BY <1>6 DEF SendWrite
    <2>2. writes' \in Nat /\ writes' \in 0..MaxWrites
      BY <1>1, <1>6 DEF SendWrite
    <2> DEFINE d == [i \in 1..r[2] |-> <<writes', r[1] + i>>]
               w == ReqFor("write", p, r[1], r[2])
               q == [w EXCEPT !.data = d]
    <2>3. d \in Seq(Cells) /\ Len(d) = r[2]
      BY <1>3, <2>2 DEF Cells
    <2> HIDE DEF d
    <2>4. /\ q \in ReqRec /\ q.op = "write" /\ q.path = p /\ q.st = "sent" /\ q.len > 0
          /\ Len(q.data) = q.len
      <3>1. /\ "write" \in fuse_operations \ Creating /\ p \in Spot
            /\ r[1] \in Nat /\ r[2] \in Nat /\ r[2] > 0
        BY <1>2, <1>3, <2>1 DEF Spot, fuse_operations, FileOperations, Creating
      <3>2. w \in ReqRec /\ w.op = "write" /\ w.path = p /\ w.st = "sent" /\ w.len = r[2]
        BY <3>1, NewRequest
      <3> HIDE DEF w
      <3> QED BY <2>3, <3>1, <3>2 DEF ReqRec
    <2> HIDE DEF q
    <2>5. ReqOK(q, DOMAIN files, FileMode)
      BY <1>2, <2>4 DEF ReqOK
    <2>6. Send(t, q)
      BY <2>1 DEF q, d, w
    <2> QED BY <2>2, <2>5, <2>6, SendNames
  <1> QED BY <1>4, <1>5, <1>6 DEF Kernel

-----------------------------------------------------------------------------
(* The callbacks of the transfer.                                          *)

(* The first n elements of a sequence.                                     *)
LEMMA TakeAt ==
    ASSUME NEW S, NEW s \in Seq(S), NEW n \in 0..Len(s)
    PROVE  /\ SubSeq(s, 1, n) \in Seq(S) /\ Len(SubSeq(s, 1, n)) = n
           /\ \A i \in 1..n : SubSeq(s, 1, n)[i] = s[i]
  OBVIOUS

(* The elements of a sequence after the n-th.                              *)
LEMMA DropAt ==
    ASSUME NEW S, NEW s \in Seq(S), NEW n \in 0..Len(s)
    PROVE  /\ SubSeq(s, n + 1, Len(s)) \in Seq(S) /\ Len(SubSeq(s, n + 1, Len(s))) = Len(s) - n
           /\ \A i \in 1..(Len(s) - n) : SubSeq(s, n + 1, Len(s))[i] = s[n + i]
  OBVIOUS

(* One sequence after the other.                                           *)
LEMMA CatAt ==
    ASSUME NEW S, NEW s \in Seq(S), NEW u \in Seq(S)
    PROVE  /\ s \o u \in Seq(S) /\ Len(s \o u) = Len(s) + Len(u)
           /\ \A i \in 1..Len(s) : (s \o u)[i] = s[i]
           /\ \A i \in 1..Len(u) : (s \o u)[Len(s) + i] = u[i]
  OBVIOUS

(* The buffer after the next n items of the body: all of them, if they fit.*)
LEMMA ReceivedAt ==
    ASSUME NEW r, r.buf \in Seq(Item), r.rest \in Seq(Item), r.len \in Nat, NEW n \in 0..Len(r.rest)
    PROVE  /\ Received(r, n) \in Seq(Item)
           /\ Len(r.buf) + n <= r.len =>
                /\ Len(Received(r, n)) = Len(r.buf) + n
                /\ \A i \in 1..Len(r.buf) : Received(r, n)[i] = r.buf[i]
                /\ \A i \in 1..n : Received(r, n)[Len(r.buf) + i] = r.rest[i]
  <1> DEFINE c == SubSeq(r.rest, 1, n)
             m == Clip(r.len - Len(r.buf), Len(c))
             d == SubSeq(c, 1, m)
  <1>1. c \in Seq(Item) /\ Len(c) = n /\ \A i \in 1..n : c[i] = r.rest[i]
    BY TakeAt
  <1>2. Received(r, n) = r.buf \o d
    BY DEF Received, write_slice_cb
  <1> HIDE DEF c
  <1>3. m \in 0..Len(c) /\ (Len(r.buf) + n <= r.len => m = n)
    <2>1. Len(r.buf) \in Nat /\ n \in Nat /\ r.len \in Nat /\ Len(c) = n
      BY <1>1
    <2> QED BY ONLY <2>1 DEF Clip
  <1> HIDE DEF m
  <1>4. d \in Seq(Item) /\ Len(d) = m /\ \A i \in 1..m : d[i] = c[i]
    BY <1>1, <1>3, TakeAt
  <1> HIDE DEF d
  <1>5. /\ r.buf \o d \in Seq(Item) /\ Len(r.buf \o d) = Len(r.buf) + Len(d)
        /\ \A i \in 1..Len(r.buf) : (r.buf \o d)[i] = r.buf[i]
        /\ \A i \in 1..Len(d) : (r.buf \o d)[Len(r.buf) + i] = d[i]
    <2> DEFINE b == r.buf
    <2>1. b \in Seq(Item) /\ d \in Seq(Item)
      BY <1>4
    <2> HIDE DEF b
    <2>2. /\ b \o d \in Seq(Item) /\ Len(b \o d) = Len(b) + Len(d)
          /\ \A i \in 1..Len(b) : (b \o d)[i] = b[i]
          /\ \A i \in 1..Len(d) : (b \o d)[Len(b) + i] = d[i]
      BY ONLY <2>1, CatAt
    <2> QED BY <2>2 DEF b
  <1> QED BY <1>1, <1>2, <1>3, <1>4, <1>5

-----------------------------------------------------------------------------
(* Types and names through the transfers.                                  *)

(* A handler hands its request to the backend.                             *)
LEMMA CallSent ==
    ASSUME NamesAll, NEW t \in Threads, ~FileMode, Handles(t, {"getattr", "read", "write"}),
           NEW r \in SentRec, SentFor(r, req[t], httpMode), net' = [net EXCEPT ![t] = r],
           req' = [req EXCEPT ![t].st = "call"],
           UNCHANGED <<phase, url, dirs, cache, kernel, ret, files, faults, seen, counts>>
    PROVE  NamesAll'
  <1> DEFINE q == [req[t] EXCEPT !.st = "call"]
  <1>1. ThreadsInv /\ ReqInv /\ NetInv
    BY DEF NamesAll
  <1>2. UNCHANGED <<phase, url, cacheDirectory, copies, evicted, known, absent, opened, ret, files, faults, seen, writes>>
    BY DEF dirs, cache, kernel, counts
  <1>3. req' = [req EXCEPT ![t] = q]
    BY <1>1 DEF ThreadsInv
  <1>4. /\ req[t].st = "sent" /\ req[t].op \in {"getattr", "read", "write"} /\ req[t] \in ReqRec
        /\ phase = "mounted"
    BY Handling
  <1>5. /\ q \in ReqRec /\ q.st = "call" /\ q.op = req[t].op /\ q.path = req[t].path
        /\ q.len = req[t].len /\ q.off = req[t].off /\ q.data = req[t].data
    BY <1>4 DEF ReqRec
  <1> HIDE DEF q
  <1>6. ReqOK(q, DOMAIN files, FileMode)
    <2>1. /\ req[t].op \in {"open", "read", "write"} => req[t].path \in DOMAIN files
          /\ req[t].op \in {"read", "write"} => req[t].len > 0
          /\ req[t].op = "write" => Len(req[t].data) = req[t].len
      BY <1>4, Working
    <2> QED BY <1>4, <1>5, <2>1 DEF ReqOK
  <1>7. /\ ReqInv' /\ req' = [u \in Threads |-> req'[u]] /\ req'[t] = q
        /\ \A u \in Threads : u # t => req'[u] = req[u]
    BY <1>1, <1>2, <1>3, <1>6, ReqUpdate
  <1>8. NetOK(r, req'[t], httpMode, DOMAIN files)
    BY <1>5, <1>7 DEF NetOK, SentFor
  <1>9. NetInv' /\ net' = [u \in Threads |-> net'[u]]
    BY <1>1, <1>2, <1>7, <1>8, NetUpdate
  <1>10. ThreadsInv'
    BY <1>1, <1>2, <1>7, <1>9 DEF ThreadsInv
  <1>11. PhaseInv' /\ FilesInv' /\ CopiesInv' /\ KernelInv'
    BY <1>2, <1>4 DEF NamesAll, PhaseInv, FilesInv, CopiesInv, KernelInv, FileMode
  <1> QED BY <1>7, <1>9, <1>10, <1>11 DEF NamesAll

(* The three handlers that do.                                             *)
LEMMA CallNames ==
    ASSUME NamesAll, NEW t \in Threads, Call(t)
    PROVE  NamesAll'
  <1>1. /\ req' = [req EXCEPT ![t].st = "call"]
        /\ UNCHANGED <<phase, url, dirs, cache, kernel, ret, files, faults, seen, counts>>
    BY DEF Call
  <1>2. \A name \in {"info", "data"} : Endpoint(name) \in {name, Nowhere}
    BY DEF Endpoint
  <1>3. <<>> \in Seq(Cells) /\ InfoCap \in Nat /\ "nowhere" \notin {"info", "data"}
    BY DEF InfoCap
  <1>4. CASE getAttributeCall(t)
    <2>1. Handles(t, {"getattr"}) /\ ~FileMode
      BY <1>4 DEF getAttributeCall
    <2>2. req[t].op = "getattr" /\ req[t] \in ReqRec /\ Handles(t, {"getattr", "read", "write"})
      BY <2>1, Handling DEF Handles
    <2>3. CASE httpMode
      <3> DEFINE r == [st |-> "sent", verb |-> "GET", endpoint |-> Endpoint("info"),
                       path |-> req[t].path, len |-> InfoCap, off |-> 0, data |-> <<>>]
      <3>1. net' = [net EXCEPT ![t] = r]
        BY <1>4, <2>3 DEF getAttributeCall, download, Request
      <3>2. r \in SentRec /\ SentFor(r, req[t], httpMode)
        BY <1>2, <1>3, <2>2 DEF SentRec, SentFor, ReqRec, Nowhere
      <3> HIDE DEF r
      <3> QED BY <1>1, <2>1, <2>2, <3>1, <3>2, CallSent
    <2>4. CASE ~httpMode
      <3> DEFINE r == [st |-> "sent", verb |-> "GET", endpoint |-> "data",
                       path |-> req[t].path, len |-> 0, off |-> 0, data |-> <<>>]
      <3>1. net' = [net EXCEPT ![t] = r]
        BY <1>4, <2>4 DEF getAttributeCall, download, Request
      <3>2. r \in SentRec /\ SentFor(r, req[t], httpMode)
        BY <1>3, <2>2, <2>4 DEF SentRec, SentFor, ReqRec
      <3> HIDE DEF r
      <3> QED BY <1>1, <2>1, <2>2, <3>1, <3>2, CallSent
    <2> QED BY <2>3, <2>4
  <1>5. CASE readFileCall(t)
    <2>1. Handles(t, {"read"}) /\ ~FileMode
      BY <1>5 DEF readFileCall
    <2>2. req[t].op = "read" /\ req[t] \in ReqRec /\ Handles(t, {"getattr", "read", "write"})
      BY <2>1, Handling DEF Handles
    <2> DEFINE r == [st |-> "sent", verb |-> "GET", endpoint |-> Endpoint("data"),
                     path |-> req[t].path, len |-> req[t].len, off |-> req[t].off, data |-> <<>>]
    <2>3. net' = [net EXCEPT ![t] = r]
      BY <1>5 DEF readFileCall, download, Request
    <2>4. r \in SentRec /\ SentFor(r, req[t], httpMode)
      BY <1>2, <1>3, <2>2 DEF SentRec, SentFor, ReqRec, Nowhere
    <2> HIDE DEF r
    <2> QED BY <1>1, <2>1, <2>2, <2>3, <2>4, CallSent
  <1>6. CASE writeFileCall(t)
    <2>1. Handles(t, {"write"}) /\ ~FileMode
      BY <1>6 DEF writeFileCall
    <2>2. /\ req[t].op = "write" /\ req[t] \in ReqRec /\ Handles(t, {"getattr", "read", "write"})
          /\ req[t].st = "sent"
      BY <2>1, Handling DEF Handles
    <2> DEFINE r == [st |-> "sent", verb |-> "PUT", endpoint |-> Endpoint("data"),
                     path |-> req[t].path, len |-> Len(req[t].data), off |-> req[t].off,
                     data |-> req[t].data]
    <2>3. net' = [net EXCEPT ![t] = r]
      BY <1>6 DEF writeFileCall, upload, Request
    <2>4. Len(req[t].data) = req[t].len
      BY <2>2, Working
    <2>5. r \in SentRec /\ SentFor(r, req[t], httpMode)
      BY <1>2, <2>2, <2>4 DEF SentRec, SentFor, ReqRec, Nowhere
    <2> HIDE DEF r
    <2> QED BY <1>1, <2>1, <2>2, <2>3, <2>5, CallSent
  <1> QED BY <1>4, <1>5, <1>6 DEF Call

(* What a handler finds when its transfer has ended.                       *)
LEMMA Returning ==
    ASSUME NamesAll, NEW t \in Threads, NEW op, Returned(t, op)
    PROVE  /\ phase = "mounted" /\ req[t].st = "call" /\ req[t].op = op /\ net[t] \in DoneRec
           /\ req[t] \in ReqRec
           /\ Succeeded(t) => req[t].path \in Dirs \cup DOMAIN files
           /\ Downloaded(t) >= 0 => Succeeded(t)
           /\ Uploaded(t) >= 0 => Succeeded(t)
  <1>1. /\ phase = "mounted" /\ req[t].st = "call" /\ req[t].op = op /\ net[t].st = "done"
        /\ NetOK(net[t], req[t], httpMode, DOMAIN files)
    BY DEF Returned, Finished, NamesAll, NetInv
  <1>2. net[t] \in DoneRec /\ (Succeeded(t) => req[t].path \in Dirs \cup DOMAIN files)
    BY <1>1 DEF NetOK, NoTransfer, SentRec, BodyRec, Succeeded
  <1>3. ~(-1 >= 0)
    OBVIOUS
  <1>4. (Downloaded(t) >= 0 => Succeeded(t)) /\ (Uploaded(t) >= 0 => Succeeded(t))
    BY <1>3 DEF Downloaded, Uploaded, Failure
  <1>5. req[t] \in ReqRec
    BY <1>1, Working
  <1> QED BY <1>1, <1>2, <1>4, <1>5

(* The handlers answer with the outcome of the transfer.                   *)
LEMMA ReturnNames ==
    ASSUME NamesAll, NEW t \in Threads,
           getAttributeReturn(t) \/ readFileReturn(t) \/ writeFileReturn(t)
    PROVE  NamesAll'
  <1>1. /\ UNCHANGED <<phase, url, cacheDirectory, copies, evicted, files, faults, seen, writes>>
        /\ net' = [net EXCEPT ![t] = NoTransfer]
    BY DEF getAttributeReturn, readFileReturn, writeFileReturn, dirs, cache, counts, Hangup
  <1>2. PICK op : Returned(t, op)
    BY DEF getAttributeReturn, readFileReturn, writeFileReturn
  <1>3. phase = "mounted" /\ req[t].st # "idle"
    BY <1>2, Returning
  <1>4. cacheDirectory' \in {"own", "sibling"} /\ evicted' \subseteq DOMAIN copies
    BY <1>1 DEF NamesAll, PhaseInv, CopiesInv
  <1>5. CASE getAttributeReturn(t)
    <2>1. Returned(t, "getattr")
      BY <1>5 DEF getAttributeReturn
    <2>2. Downloaded(t) >= 0 => req[t].path \in Dirs \cup DOMAIN files
      BY <2>1, Returning
    <2>3. Error # ENOENT /\ Error # 0 /\ 0 # ENOENT
      BY DEF Error, ENOENT
    <2>4. PICK res, out : /\ Answer(t, res, out) /\ res # ENOENT
                          /\ res = 0 => req[t].path \in Dirs \cup DOMAIN files
      <3>1. CASE Answer(t, Error, <<>>)
        BY <2>3, <3>1
      <3>2. CASE Downloaded(t) >= 0 /\ Answer(t, 0, getFileInfo(net[t].buf))
        BY <2>2, <2>3, <3>2
      <3>3. CASE /\ Downloaded(t) >= 0
                 /\ Answer(t, IF req[t].path \in DOMAIN copies \ evicted THEN 0 ELSE Error, <<>>)
        BY <2>2, <2>3, <3>3
      <3> QED BY <1>5, <3>1, <3>2, <3>3 DEF getAttributeReturn
    <2> QED BY <1>1, <1>3, <1>4, <2>4, QuietAnswer
  <1>6. CASE readFileReturn(t)
    <2>1. req[t].op = "read"
      BY <1>6 DEF readFileReturn, Returned
    <2>2. Answer(t, Downloaded(t), net[t].buf)
      BY <1>6 DEF readFileReturn
    <2> QED BY <1>1, <1>3, <1>4, <2>1, <2>2, QuietAnswer
  <1>7. CASE writeFileReturn(t)
    <2>1. req[t].op = "write"
      BY <1>7 DEF writeFileReturn, Returned
    <2>2. Answer(t, Uploaded(t), <<>>)
      BY <1>7 DEF writeFileReturn
    <2> QED BY <1>1, <1>3, <1>4, <2>1, <2>2, QuietAnswer
  <1> QED BY <1>5, <1>6, <1>7

(* The process dies of an exception, or in the cache.                      *)
LEMMA ThrowsNames ==
    ASSUME NamesAll, NEW t \in Threads, getFileInfoThrows(t) \/ cacheDies(t)
    PROVE  NamesAll'
  <1>1. /\ phase' = "dead"
        /\ UNCHANGED <<url, cacheDirectory, copies, evicted, known, absent, opened>>
        /\ UNCHANGED <<files, net, faults, req, ret, seen, writes>>
    BY DEF getFileInfoThrows, cacheDies, dirs, cache, kernel, remote, counts
  <1> QED BY <1>1 DEF NamesAll, ThreadsInv, PhaseInv, FilesInv, CopiesInv, KernelInv, ReqInv, NetInv,
    ReqOK, NetOK, SentFor, FileMode, httpMode

(* A step of the network: the transfer fits the request, and files keep    *)
(* their names.                                                            *)
LEMMA NetworkFrame ==
    ASSUME NamesAll, NEW t \in Threads, NEW r, net' = [net EXCEPT ![t] = r],
           NetOK(r, req[t], httpMode, DOMAIN files), faults' \in 0..MaxFaults, Noted,
           phase = "mounted", UNCHANGED <<phase, url, dirs, cache, kernel, req, ret, counts>>,
           \/ UNCHANGED files
           \/ \E f : IsFile(f) /\ req[t].path \in DOMAIN files /\ files' = Stored(files, req[t].path, f)
    PROVE  NamesAll'
  <1>1. UNCHANGED <<phase, url, cacheDirectory, copies, evicted, known, absent, opened, req, ret, writes>>
    BY DEF dirs, cache, kernel, counts
  <1>2. DOMAIN files' = DOMAIN files /\ FilesInv' /\ CopiesInv'
    <2>1. CASE UNCHANGED files
      BY <1>1, <2>1 DEF NamesAll, FilesInv, CopiesInv, FileMode
    <2>2. CASE \E f : IsFile(f) /\ req[t].path \in DOMAIN files /\ files' = Stored(files, req[t].path, f)
      BY <1>1, <2>2, FilesChange
    <2> QED BY <2>1, <2>2
  <1>3. NetInv' /\ net' = [u \in Threads |-> net'[u]]
    <2>1. ThreadsInv /\ NetInv /\ (\A u \in Threads : u # t => req'[u] = req[u]) /\ req'[t] = req[t]
      BY <1>1 DEF NamesAll
    <2> QED BY <1>1, <1>2, <2>1, NetUpdate
  <1>4. ThreadsInv'
    BY <1>1, <1>3 DEF NamesAll, ThreadsInv, Noted
  <1>5. PhaseInv' /\ KernelInv'
    BY <1>1, <1>2 DEF NamesAll, PhaseInv, KernelInv
  <1>6. ReqInv'
    BY <1>1, <1>2 DEF NamesAll, ReqInv, ReqOK, FileMode
  <1> QED BY <1>2, <1>3, <1>4, <1>5, <1>6 DEF NamesAll

(* What is on its way belongs to a request that waits for it.              *)
LEMMA OnTheWire ==
    ASSUME NamesAll, NEW t \in Threads, net[t].st \in {"sent", "body"}
    PROVE  /\ req[t] \in ReqRec /\ req[t].st = "call" /\ req[t].op \in {"getattr", "read", "write"}
           /\ req[t].op \in {"read", "write"} => req[t].path \in DOMAIN files
           /\ net[t].st = "sent" => net[t] \in SentRec /\ SentFor(net[t], req[t], httpMode)
           /\ net[t].st = "body" => /\ net[t] \in BodyRec /\ req[t].op # "write"
                                    /\ req[t].path \in Dirs \cup DOMAIN files
  <1>1. NetOK(net[t], req[t], httpMode, DOMAIN files) /\ net[t] # NoTransfer
    BY DEF NamesAll, NetInv, NoTransfer
  <1>2. req[t].st = "call" /\ net[t] \notin DoneRec
    BY <1>1 DEF NetOK, DoneRec
  <1>3. /\ net[t].st = "sent" => net[t] \in SentRec /\ SentFor(net[t], req[t], httpMode)
        /\ net[t].st = "body" => /\ net[t] \in BodyRec /\ req[t].op # "write"
                                 /\ req[t].path \in Dirs \cup DOMAIN files
    BY <1>1, <1>2 DEF NetOK, SentRec, BodyRec
  <1> QED BY <1>2, <1>3, Working

(* The outcome of a transfer.                                              *)
LEMMA DoneFields ==
    ASSUME NEW r, r.len \in Nat, NEW code \in Nat, NEW cres \in BOOLEAN, NEW buf \in Seq(Item)
    PROVE  /\ Done(r, code, cres, buf) \in DoneRec /\ Done(r, code, cres, buf).code = code
           /\ Done(r, code, cres, buf).cres = cres /\ Done(r, code, cres, buf).buf = buf
           /\ Done(r, code, cres, buf).len = r.len /\ Done(r, code, cres, buf).st = "done"
  BY DEF Done, DoneRec

(* A transfer that failed.                                                 *)
LEMMA LostFields ==
    ASSUME NEW r, r.len \in Nat, NEW code \in Nat
    PROVE  /\ Done(r, code, FALSE, <<>>) \in DoneRec /\ ~Done(r, code, FALSE, <<>>).cres
           /\ Done(r, code, FALSE, <<>>).len = r.len
  <1>1. <<>> \in Seq(Item) /\ FALSE \in BOOLEAN
    OBVIOUS
  <1> QED BY <1>1 DEF Done, DoneRec

(* The description of a file or a directory.                               *)
LEMMA InfoItems ==
    ASSUME NamesAll, NEW p \in Dirs \cup DOMAIN files
    PROVE  /\ get_file_info(files, p) \in Seq(Item) /\ Len(get_file_info(files, p)) = 5
           /\ get_file_info(files, p) = Description(p \in Dirs, IF p \in Dirs THEN 0 ELSE Len(files[p]))
  <1> DEFINE n == IF p \in Dirs THEN 0 ELSE Len(files[p])
             d == p \in Dirs
  <1>1. n \in Nat
    BY DEF NamesAll, FilesInv, IsFile
  <1>2. get_file_info(files, p) = <<"name", "size", n, "is_directory", d>>
    BY DEF get_file_info
  <1>3. d \in BOOLEAN
    OBVIOUS
  <1> HIDE DEF n, d
  <1>4. "name" \in Item /\ "size" \in Item /\ n \in Item /\ "is_directory" \in Item /\ d \in Item
    BY <1>1, <1>3 DEF Item
  <1>5. get_file_info(files, p) \in Seq(Item) /\ Len(get_file_info(files, p)) = 5
    BY <1>2, <1>4
  <1>6. get_file_info(files, p) = Description(d, n)
    BY <1>2 DEF Description
  <1> QED BY <1>5, <1>6 DEF n, d

(* The answers of the server to a GET.                                     *)
LEMMA ServeGetCases ==
    ASSUME NamesAll, NEW t \in Threads, ServeGet(t)
    PROVE  \E r \in BodyRec \cup DoneRec :
             /\ net' = [net EXCEPT ![t] = r]
             /\ \/ r \in DoneRec /\ ~r.cres
                \/ /\ r \in BodyRec /\ r.buf = <<>> /\ r.len = net[t].len
                   /\ \/ /\ net[t].endpoint = "info" /\ req[t].path \in Dirs \cup DOMAIN files
                         /\ r.rest = get_file_info(files, req[t].path)
                      \/ /\ net[t].endpoint = "data" /\ req[t].path \in DOMAIN files /\ r.sized
                         /\ net[t].len > 0 => r.rest = pread(files[req[t].path], net[t].len, net[t].off)
  <1> DEFINE w == net[t]
             p == req[t].path
  <1>1. w \in SentRec /\ w.path = p
    BY OnTheWire DEF ServeGet, SentFor
  <1>2. w.len \in Nat /\ w.off \in Nat /\ <<>> \in Seq(Item)
    BY <1>1 DEF SentRec
  <1>3. \A q \in DOMAIN files : files[q] \in Seq(Item)
    <2>1. \A q \in DOMAIN files : files[q] \in Seq(Cells)
      BY DEF NamesAll, FilesInv, IsFile
    <2>2. Seq(Cells) \subseteq Seq(Item)
      BY DEF Item
    <2> QED BY <2>1, <2>2
  <1> DEFINE ans == CASE w.endpoint = "info" -> handle_info_request(files, w.path)
                      [] w.endpoint = "data" -> handle_data_request(files, w.path, w.off, w.len)
                      [] OTHER -> NotFound
  <1>4. net' = [net EXCEPT ![t] = Answered(w, ans)]
    BY DEF ServeGet
  <1>5. /\ w.endpoint = "info" => ans = handle_info_request(files, p)
        /\ w.endpoint = "data" => ans = handle_data_request(files, p, w.off, w.len)
        /\ w.endpoint \notin {"info", "data"} => ans = NotFound
    BY <1>1
  <1> HIDE DEF ans
  <1>6. ASSUME ans.code \in Nat, ans.code >= 400 \/ ans.length < 0
        PROVE  \E r \in DoneRec : net' = [net EXCEPT ![t] = r] /\ ~r.cres
    BY <1>2, <1>4, <1>6, DoneFields DEF Answered
  <1>7. ASSUME ans.code \in Nat, ans.body \in Seq(Item), ans.sized \in BOOLEAN,
               ~(ans.code >= 400 \/ ans.length < 0)
        PROVE  \E r \in BodyRec : /\ net' = [net EXCEPT ![t] = r] /\ r.buf = <<>> /\ r.len = w.len
                                  /\ r.rest = ans.body /\ r.sized = ans.sized
    <2> DEFINE r == [st |-> "body", code |-> ans.code, rest |-> ans.body, sized |-> ans.sized,
                     buf |-> <<>>, len |-> w.len]
    <2>1. Answered(w, ans) = r
      BY <1>7 DEF Answered
    <2>2. r \in BodyRec /\ r.buf = <<>> /\ r.len = w.len /\ r.rest = ans.body /\ r.sized = ans.sized
      BY <1>2, <1>7 DEF BodyRec
    <2> QED BY <1>4, <2>1, <2>2
  <1>8. NotFound.code = 404
    BY DEF NotFound, Reply
  <1>9. CASE ans = NotFound
    <2>1. ans.code \in Nat /\ ans.code >= 400
      BY <1>8, <1>9
    <2> QED BY <1>6, <2>1
  <1>10. CASE w.endpoint = "info" /\ p \in Dirs \cup DOMAIN files
    <2> DEFINE body == get_file_info(files, p)
    <2>1. body \in Seq(Item) /\ Len(body) = 5
      BY <1>10, InfoItems
    <2> HIDE DEF body
    <2>2. ans = Reply(200, body, FALSE)
      BY <1>5, <1>10 DEF handle_info_request, body
    <2>3. /\ ans.code \in Nat /\ ans.body = body /\ ans.body \in Seq(Item)
          /\ ~(ans.code >= 400 \/ ans.length < 0)
      BY <2>1, <2>2 DEF Reply
    <2>4. ans.sized \in BOOLEAN
      BY <2>2 DEF Reply
    <2>5. \E r \in BodyRec : /\ net' = [net EXCEPT ![t] = r] /\ r.buf = <<>> /\ r.len = w.len
                             /\ r.rest = ans.body /\ r.sized = ans.sized
      BY <1>7, <2>3, <2>4
    <2> QED BY <1>10, <2>3, <2>5 DEF body
  <1>11. CASE w.endpoint = "data" /\ p \in DOMAIN files /\ w.len = 0
    <2> DEFINE body == files[p]
    <2>1. body \in Seq(Item) /\ Len(body) \in Nat
      BY <1>3, <1>11
    <2>2. ans = Reply(200, body, TRUE)
      BY <1>5, <1>11 DEF handle_data_request
    <2> HIDE DEF body
    <2>3. /\ ans.code \in Nat /\ ans.body \in Seq(Item) /\ ~(ans.code >= 400 \/ ans.length < 0)
      BY <2>1, <2>2 DEF Reply
    <2>4. ans.sized \in BOOLEAN /\ ans.sized
      BY <2>2 DEF Reply
    <2>5. \E r \in BodyRec : /\ net' = [net EXCEPT ![t] = r] /\ r.buf = <<>> /\ r.len = w.len
                             /\ r.rest = ans.body /\ r.sized = ans.sized
      BY <1>7, <2>3, <2>4
    <2>6. ~(w.len > 0)
      BY <1>11
    <2> QED BY <1>11, <2>4, <2>5, <2>6
  <1>12. CASE w.endpoint = "data" /\ p \in DOMAIN files /\ w.len # 0
    <2> DEFINE f == files[p]
               body == pread(f, w.len, w.off)
    <2>1. f \in Seq(Item)
      BY <1>3, <1>12
    <2>2. ans = [Reply(206, body, TRUE) EXCEPT !.length = IF w.off > Len(f) THEN Len(f) - w.off ELSE @]
      BY <1>5, <1>12 DEF handle_data_request
    <2> HIDE DEF f
    <2>3. body \in Seq(Item)
      BY <1>2, <2>1, PreadSeq
    <2> HIDE DEF body
    <2>4. ans.code \in Nat /\ ans.body = body /\ ans.body \in Seq(Item) /\ ~(ans.code >= 400)
      BY <2>2, <2>3 DEF Reply
    <2>5. ans.sized \in BOOLEAN /\ ans.sized
      BY <2>2 DEF Reply
    <2>6. CASE ans.length < 0
      BY <1>6, <2>4, <2>6
    <2>7. CASE ~(ans.length < 0)
      <3>1. \E r \in BodyRec : /\ net' = [net EXCEPT ![t] = r] /\ r.buf = <<>> /\ r.len = w.len
                               /\ r.rest = ans.body /\ r.sized = ans.sized
        BY <1>7, <2>4, <2>5, <2>7
      <3> QED BY <1>12, <2>4, <2>5, <3>1 DEF body, f
    <2> QED BY <2>6, <2>7
  <1>13. \/ ans = NotFound
         \/ w.endpoint = "info" /\ p \in Dirs \cup DOMAIN files
         \/ w.endpoint = "data" /\ p \in DOMAIN files
    BY <1>5 DEF handle_info_request, handle_data_request
  <1> QED BY <1>9, <1>10, <1>11, <1>12, <1>13

(* The answer to a PUT: the file has been replaced as a whole.             *)
LEMMA ServePutCases ==
    ASSUME NamesAll, NEW t \in Threads, ServePut(t)
    PROVE  /\ req[t].op = "write" /\ req[t].path \in DOMAIN files /\ req[t].data \in Seq(Cells)
           /\ \E r \in DoneRec :
                /\ net' = [net EXCEPT ![t] = r] /\ r.len = req[t].len
                /\ \/ files' = files /\ ~r.cres
                   \/ files' = Stored(files, req[t].path, req[t].data)
  <1> DEFINE w == net[t]
             p == req[t].path
  <1>1. /\ w \in SentRec /\ w.path = p /\ req[t].op = "write" /\ w.len = req[t].len
        /\ w.data = req[t].data /\ p \in DOMAIN files /\ req[t].data \in Seq(Cells)
    BY OnTheWire DEF ServePut, SentFor, ReqRec
  <1>2. w.len \in Nat /\ <<>> \in Seq(Item) /\ p \notin Dirs
    BY <1>1 DEF SentRec, NamesAll, FilesInv
  <1> DEFINE a == IF w.endpoint = "data" THEN handle_data_upload(files, w.path, w.data)
                  ELSE [code |-> 404, files |-> files]
  <1>3. files' = a.files /\ net' = [net EXCEPT ![t] = Done(w, a.code, a.code < 400, <<>>)]
    BY DEF ServePut
  <1>4. CASE w.endpoint = "data"
    <2>1. a.code = 201 /\ a.files = Stored(files, p, req[t].data)
      BY <1>1, <1>2, <1>4 DEF handle_data_upload
    <2> HIDE DEF a
    <2>2. a.code \in Nat /\ (a.code < 400) = TRUE
      BY <2>1
    <2>3. Done(w, a.code, TRUE, <<>>) \in DoneRec /\ Done(w, a.code, TRUE, <<>>).len = w.len
      BY <1>2, <2>2 DEF Done, DoneRec
    <2> QED BY <1>1, <1>3, <2>1, <2>2, <2>3
  <1>5. CASE w.endpoint # "data"
    <2>1. a.code = 404 /\ a.files = files
      BY <1>5
    <2> HIDE DEF a
    <2>2. a.code \in Nat /\ (a.code < 400) = FALSE
      BY <2>1
    <2>3. /\ Done(w, a.code, FALSE, <<>>) \in DoneRec /\ Done(w, a.code, FALSE, <<>>).len = w.len
          /\ ~Done(w, a.code, FALSE, <<>>).cres
      BY <1>2, <2>2, LostFields
    <2> QED BY <1>1, <1>3, <2>1, <2>2, <2>3
  <1> QED BY <1>4, <1>5

(* Types and names through the steps of a transfer.                        *)
LEMMA TransferNames ==
    ASSUME NamesAll, NEW t \in Threads, Network(t)
    PROVE  NamesAll'
  <1>1. /\ phase = "mounted" /\ Noted /\ Transfer(t) /\ faults' = faults
        /\ UNCHANGED <<phase, url, dirs, cache, kernel, req, ret, counts>>
    BY DEF Network, Transfer, ServeGet, ServePut, Receive, Complete
  <1>2. faults' \in 0..MaxFaults
    BY <1>1 DEF NamesAll, PhaseInv
  <1>3. CASE ServeGet(t)
    <2>1. PICK r \in BodyRec \cup DoneRec :
             /\ net' = [net EXCEPT ![t] = r]
             /\ \/ r \in DoneRec /\ ~r.cres
                \/ r \in BodyRec /\ req[t].path \in Dirs \cup DOMAIN files
      BY <1>3, ServeGetCases
    <2>2. req[t].st = "call" /\ req[t].op # "write"
      BY <1>3, OnTheWire DEF ServeGet, SentFor
    <2>3. NetOK(r, req[t], httpMode, DOMAIN files)
      BY <2>1, <2>2 DEF NetOK
    <2>4. UNCHANGED files
      BY <1>3 DEF ServeGet
    <2> QED BY <1>1, <1>2, <2>1, <2>3, <2>4, NetworkFrame
  <1>4. CASE ServePut(t)
    <2>1. /\ req[t].path \in DOMAIN files /\ IsFile(req[t].data)
      BY <1>4, ServePutCases DEF IsFile
    <2>2. PICK r \in DoneRec :
                /\ net' = [net EXCEPT ![t] = r]
                /\ files' = files \/ files' = Stored(files, req[t].path, req[t].data)
      BY <1>4, ServePutCases
    <2>3. req[t].st = "call"
      BY <1>4, OnTheWire DEF ServePut
    <2>4. NetOK(r, req[t], httpMode, DOMAIN files)
      BY <2>1, <2>2, <2>3 DEF NetOK
    <2> QED BY <1>1, <1>2, <2>1, <2>2, <2>4, NetworkFrame
  <1>5. ASSUME net[t].st = "body"
        PROVE  /\ req[t].st = "call" /\ req[t].op # "write" /\ req[t].path \in Dirs \cup DOMAIN files
               /\ net[t] \in BodyRec /\ net[t].buf \in Seq(Item) /\ net[t].rest \in Seq(Item)
               /\ net[t].len \in Nat /\ net[t].code \in Nat
    BY <1>5, OnTheWire DEF BodyRec
  <1>6. CASE Receive(t)
    <2> DEFINE w == net[t]
               b == Received(w, ChunkSize)
               e == SubSeq(w.rest, ChunkSize + 1, Len(w.rest))
               r == [w EXCEPT !.buf = b, !.rest = e]
    <2>1. w.st = "body" /\ Len(w.rest) > ChunkSize /\ UNCHANGED files
      BY <1>6 DEF Receive
    <2>2. w \in BodyRec /\ w.buf \in Seq(Item) /\ w.rest \in Seq(Item) /\ w.len \in Nat
      BY <1>5, <2>1
    <2>3. net' = [net EXCEPT ![t] = r]
      BY <1>6 DEF Receive, NamesAll, ThreadsInv
    <2> HIDE DEF w
    <2>4. ChunkSize \in 0..Len(w.rest)
      BY <2>1, <2>2, BackendAssumption
    <2>5. b \in Seq(Item)
      BY <2>2, <2>4, ReceivedAt
    <2>6. e \in Seq(Item)
      BY <2>2, <2>4, DropAt
    <2> HIDE DEF b, e
    <2>7. r \in BodyRec
      BY <2>2, <2>5, <2>6 DEF BodyRec
    <2> HIDE DEF r
    <2>8. NetOK(r, req[t], httpMode, DOMAIN files)
      BY <1>5, <2>1, <2>7 DEF NetOK, w
    <2> QED BY <1>1, <1>2, <2>1, <2>3, <2>8, NetworkFrame
  <1>7. CASE Complete(t)
    <2> DEFINE w == net[t]
               b == Received(w, Len(w.rest))
               r == Done(w, w.code, TRUE, b)
    <2>1. w.st = "body" /\ UNCHANGED files
      BY <1>7 DEF Complete
    <2>2. /\ w.buf \in Seq(Item) /\ w.rest \in Seq(Item) /\ w.len \in Nat /\ w.code \in Nat
          /\ Len(w.rest) \in 0..Len(w.rest)
      BY <1>5, <2>1
    <2>3. net' = [net EXCEPT ![t] = r]
      BY <1>7 DEF Complete, NamesAll, ThreadsInv
    <2> HIDE DEF w
    <2>4. b \in Seq(Item)
      BY <2>2, ReceivedAt
    <2> HIDE DEF b
    <2>5. r \in DoneRec
      BY <2>2, <2>4, DoneFields
    <2> HIDE DEF r
    <2>6. NetOK(r, req[t], httpMode, DOMAIN files)
      BY <1>5, <2>1, <2>5 DEF NetOK, w
    <2> QED BY <1>1, <1>2, <2>1, <2>3, <2>6, NetworkFrame
  <1> QED BY <1>1, <1>3, <1>4, <1>6, <1>7 DEF Transfer

(* What a lost connection leaves: an outcome that is no success, or, where *)
(* the length of the body is not known, the beginning of the body.         *)
LEMMA LoseCases ==
    ASSUME NamesAll, NEW t \in Threads, Lose(t)
    PROVE  /\ req[t].st = "call" /\ faults' = faults + 1 /\ faults' \in 0..MaxFaults
           /\ \E r \in DoneRec :
                /\ net' = [net EXCEPT ![t] = r]
                /\ \/ ~r.cres
                   \/ /\ net[t].st = "body" /\ ~net[t].sized /\ req[t].op # "write"
                      /\ req[t].path \in Dirs \cup DOMAIN files
                      /\ \E n \in 0..Len(net[t].rest) : r.buf = Received(net[t], n)
           /\ \/ UNCHANGED files
              \/ \E f : /\ IsFile(f) /\ req[t].path \in DOMAIN files
                        /\ files' = Stored(files, req[t].path, f)
  <1> DEFINE w == net[t]
  <1>1. /\ w.st \in {"sent", "body"} /\ faults' = faults + 1 /\ faults < MaxFaults
    BY DEF Lose, LoseRequest, LoseUpload, LoseBody, Fault
  <1>2. faults' \in 0..MaxFaults
    BY <1>1, BackendAssumption DEF NamesAll, PhaseInv
  <1>3. /\ req[t].st = "call"
        /\ w.st = "sent" => w \in SentRec /\ SentFor(w, req[t], httpMode)
        /\ w.st = "body" => w \in BodyRec /\ req[t].op # "write" /\ req[t].path \in Dirs \cup DOMAIN files
        /\ req[t].op \in {"read", "write"} => req[t].path \in DOMAIN files
    BY <1>1, OnTheWire
  <1>4. w.len \in Nat /\ <<>> \in Seq(Item) /\ 0 \in Nat
    BY <1>1, <1>3 DEF SentRec, BodyRec
  <1>5. net = [u \in Threads |-> net[u]]
    BY DEF NamesAll, ThreadsInv
  <1>6. Done(w, 0, FALSE, <<>>) \in DoneRec /\ ~Done(w, 0, FALSE, <<>>).cres
    BY <1>4, LostFields
  <1>7. CASE LoseRequest(t)
    <2>1. net' = [net EXCEPT ![t] = Done(w, 0, FALSE, <<>>)] /\ UNCHANGED files
      BY <1>5, <1>7 DEF LoseRequest
    <2> QED BY <1>1, <1>2, <1>3, <1>6, <2>1
  <1>8. CASE LoseUpload(t)
    <2>1. /\ net' = [net EXCEPT ![t] = Done(w, 0, FALSE, <<>>)] /\ w.st = "sent" /\ w.verb = "PUT"
      BY <1>5, <1>8 DEF LoseUpload
    <2>2. PICK n \in 0..Len(w.data) : files' = handle_data_upload(files, w.path, SubSeq(w.data, 1, n)).files
      BY <1>8 DEF LoseUpload
    <2>3. /\ w.data \in Seq(Cells) /\ w.path = req[t].path /\ req[t].path \in DOMAIN files
          /\ req[t].path \notin Dirs
      BY <1>3, <2>1 DEF SentRec, SentFor, NamesAll, FilesInv
    <2> DEFINE f == SubSeq(w.data, 1, n)
    <2>4. IsFile(f)
      BY <2>3, TakeAt DEF IsFile
    <2>5. files' = handle_data_upload(files, req[t].path, f).files
      BY <2>2, <2>3
    <2> HIDE DEF f
    <2>6. files' = Stored(files, req[t].path, f)
      BY <2>3, <2>5 DEF handle_data_upload
    <2> QED BY <1>1, <1>2, <1>3, <1>6, <2>1, <2>3, <2>4, <2>6
  <1>9. CASE LoseBody(t)
    <2>1. w.st = "body" /\ w.rest # <<>> /\ UNCHANGED files
      BY <1>9 DEF LoseBody
    <2>2. /\ w \in BodyRec /\ w.buf \in Seq(Item) /\ w.rest \in Seq(Item) /\ w.code \in Nat
          /\ w.sized \in BOOLEAN /\ req[t].op # "write" /\ req[t].path \in Dirs \cup DOMAIN files
      BY <1>3, <2>1 DEF BodyRec
    <2>3. PICK cres \in {FALSE, ~w.sized}, n \in 0..Clip(Len(w.rest) - 1, ChunkSize) :
             net' = [net EXCEPT ![t] = Done(w, w.code, cres, Received(w, n))]
      BY <1>5, <1>9 DEF LoseBody
    <2>4. n \in 0..Len(w.rest)
      <3>1. Len(w.rest) \in Nat /\ ChunkSize \in Nat /\ n \in 0..Clip(Len(w.rest) - 1, ChunkSize)
        BY <2>2, BackendAssumption
      <3> QED BY ONLY <3>1 DEF Clip
    <2>5. cres \in BOOLEAN /\ (cres => ~w.sized)
      BY <2>2, <2>3
    <2> DEFINE b == Received(w, n)
    <2>6. b \in Seq(Item)
      BY <1>4, <2>2, <2>4, ReceivedAt
    <2>7. /\ Done(w, w.code, cres, b) \in DoneRec /\ Done(w, w.code, cres, b).cres = cres
          /\ Done(w, w.code, cres, b).buf = b
      <3> HIDE DEF b
      <3> QED BY <1>4, <2>2, <2>5, <2>6, DoneFields
    <2>8. net' = [net EXCEPT ![t] = Done(w, w.code, cres, b)]
      BY <2>3
    <2> DEFINE r == Done(w, w.code, cres, b)
    <2>9. /\ r \in DoneRec /\ net' = [net EXCEPT ![t] = r] /\ r.buf = Received(w, n)
          /\ r.cres => ~w.sized
      BY <2>5, <2>7, <2>8
    <2> HIDE DEF r
    <2>10. \E s \in DoneRec :
                /\ net' = [net EXCEPT ![t] = s]
                /\ \/ ~s.cres
                   \/ /\ net[t].st = "body" /\ ~net[t].sized /\ req[t].op # "write"
                      /\ req[t].path \in Dirs \cup DOMAIN files
                      /\ \E m \in 0..Len(net[t].rest) : s.buf = Received(net[t], m)
      BY <2>1, <2>2, <2>4, <2>9
    <2> QED BY <1>1, <1>2, <1>3, <2>1, <2>10
  <1> QED BY <1>7, <1>8, <1>9 DEF Lose

(* Types and names when a connection is lost.                              *)
LEMMA FailingNames ==
    ASSUME NamesAll, NEW t \in Threads, Failing(t)
    PROVE  NamesAll'
  <1>1. /\ phase = "mounted" /\ Noted /\ Lose(t)
        /\ UNCHANGED <<phase, url, dirs, cache, kernel, req, ret, counts>>
    BY DEF Failing
  <1>2. PICK r \in DoneRec : /\ net' = [net EXCEPT ![t] = r]
                             /\ r.cres => req[t].path \in Dirs \cup DOMAIN files
    BY <1>1, LoseCases
  <1>3. req[t].st = "call" /\ faults' \in 0..MaxFaults
    BY <1>1, LoseCases
  <1>4. \/ UNCHANGED files
        \/ \E f : IsFile(f) /\ req[t].path \in DOMAIN files /\ files' = Stored(files, req[t].path, f)
    BY <1>1, LoseCases
  <1>5. NetOK(r, req[t], httpMode, DOMAIN files)
    BY <1>2, <1>3 DEF NetOK
  <1> QED BY <1>1, <1>2, <1>3, <1>4, <1>5, NetworkFrame

-----------------------------------------------------------------------------
(* The first theorems.                                                     *)

(* Before main has run there are no requests, transfers or copies.         *)
LEMMA InitNames == Init => NamesAll
  <1> SUFFICES ASSUME Init PROVE NamesAll
    OBVIOUS
  <1>1. ThreadsInv
    BY DEF Init, ThreadsInv
  <1>2. PhaseInv
    BY FuseAssumption, BackendAssumption DEF Init, PhaseInv
  <1>3. FilesInv
    BY InitFilesAssumption DEF Init, FilesInv
  <1>4. DOMAIN copies = {}
    BY DEF Init
  <1>5. CopiesInv
    BY <1>4 DEF Init, CopiesInv
  <1>6. KernelInv
    BY DEF Init, KernelInv
  <1>7. ReqInv /\ NetInv
    BY DEF Init, ReqInv, ReqOK, NetInv, NetOK
  <1> QED BY <1>1, <1>2, <1>3, <1>5, <1>6, <1>7 DEF NamesAll

(* A step that changes nothing.                                            *)
LEMMA StutterNames ==
    ASSUME NamesAll, UNCHANGED vars
    PROVE  NamesAll'
  <1>1. /\ UNCHANGED <<phase, url, cacheDirectory, copies, evicted, known, absent, opened>>
        /\ UNCHANGED <<files, net, faults, req, ret, seen, writes>>
    BY DEF vars, dirs, cache, kernel, remote, counts
  <1> QED BY <1>1 DEF NamesAll, ThreadsInv, PhaseInv, FilesInv, CopiesInv, KernelInv, ReqInv, NetInv,
    ReqOK, NetOK, SentFor, FileMode, httpMode

(* Every step keeps types and names.                                       *)
LEMMA NextNames == NamesAll /\ [Next]_vars => NamesAll'
  <1> SUFFICES ASSUME NamesAll, [Next]_vars PROVE NamesAll'
    OBVIOUS
  <1>1. CASE Main \/ Unmount
    BY <1>1, MainNames
  <1>2. CASE \E t \in Threads : Kernel(t)
    BY <1>2, KernelNames
  <1>3. ASSUME NEW t \in Threads, Handler(t) PROVE NamesAll'
    BY <1>3, DispatchNames, AttributeFileNames, ReadFileNames, StoreNames, WriteFileNames, CallNames,
       ReturnNames, ThrowsNames DEF Handler
  <1>4. CASE \E t \in Threads : Network(t)
    BY <1>4, TransferNames
  <1>5. CASE \E t \in Threads : Failing(t)
    BY <1>5, FailingNames
  <1>6. CASE UNCHANGED vars
    BY <1>6, StutterNames
  <1> QED BY <1>1, <1>2, <1>3, <1>4, <1>5, <1>6 DEF Next

(* Types of the process's and the kernel's state: the kernel's names and   *)
(* open files and the cache's copies all stand for remote files that are   *)
(* there, and a transfer belongs to a handler that waits for it.           *)
THEOREM FuseTypeCorrect == Spec => []TypeOK
  <1>1. NamesAll => TypeOK
    <2> SUFFICES ASSUME NamesAll PROVE TypeOK
      OBVIOUS
    <2>1. \A t \in Threads : (net[t] # NoTransfer) => req[t].st = "call"
      BY DEF NamesAll, NetInv, NetOK
    <2>2. known \subseteq Names /\ absent \subseteq Names /\ opened \subseteq DOMAIN files
      BY FuseAssumption DEF NamesAll, KernelInv, FilesInv
    <2> QED BY <2>1, <2>2 DEF TypeOK, NamesAll, PhaseInv, FilesInv, CopiesInv
  <1> QED BY <1>1, InitNames, NextNames, PTL DEF Spec

(* No step adds or removes a remote name.                                  *)
LEMMA StepKeepsNames ==
    ASSUME NamesAll, [Next]_vars
    PROVE  DOMAIN files' = DOMAIN files
  <1>1. ASSUME NEW p \in DOMAIN files, NEW f, files' = Stored(files, p, f)
        PROVE  DOMAIN files' = DOMAIN files
    BY <1>1 DEF Stored
  <1>2. ASSUME NEW t \in Threads, writeFileFile(t) PROVE DOMAIN files' = DOMAIN files
    <2>1. req[t].path \in DOMAIN files
      BY <1>2, Handling DEF writeFileFile
    <2>2. \/ UNCHANGED files
          \/ files' = Stored(files, req[t].path,
                             pwrite(Content(files, req[t].path), req[t].data, req[t].off))
      BY <1>2 DEF writeFileFile
    <2> QED BY <1>1, <2>1, <2>2
  <1>3. ASSUME NEW t \in Threads, Network(t) PROVE DOMAIN files' = DOMAIN files
    <2>1. CASE ServePut(t)
      BY <1>1, <2>1, ServePutCases
    <2>2. CASE ~ServePut(t)
      BY <1>3, <2>2 DEF Network, Transfer, ServeGet, Receive, Complete
    <2> QED BY <2>1, <2>2
  <1>4. ASSUME NEW t \in Threads, Failing(t) PROVE DOMAIN files' = DOMAIN files
    <2>1. \/ UNCHANGED files
          \/ \E f : req[t].path \in DOMAIN files /\ files' = Stored(files, req[t].path, f)
      BY <1>4, LoseCases DEF Failing
    <2> QED BY <1>1, <2>1
  <1>5. ASSUME NEW t \in Threads, Kernel(t) \/ Handler(t), ~writeFileFile(t) PROVE UNCHANGED files
    BY <1>5 DEF Kernel, SendName, SendRead, SendWrite, Send, Handler, Dispatch, DispatchName, HideOpen,
      releaseFiles, cacheDies, getAttributeFile, readFileFile, readFileStore, Call,
      getAttributeReturn, getFileInfoThrows, readFileReturn, writeFileReturn, remote
  <1>6. Main \/ Unmount \/ UNCHANGED vars => UNCHANGED files
    BY DEF Main, Unmount, vars, remote
  <1> QED BY <1>2, <1>3, <1>4, <1>5, <1>6 DEF Next

(* No step makes a name next to the cache's directory: no mkdir comes.     *)
LEMMA StepKeepsSibling ==
    ASSUME NamesAll, [Next]_vars
    PROVE  sibling' \subseteq sibling
  <1>1. ASSUME NEW t \in Threads, DispatchName(t) PROVE sibling' \subseteq sibling
    <2>1. req[t].op # "mkdir" /\ req[t].op \in {"mkdir", "rmdir", "unlink"}
      BY <1>1, Handling DEF DispatchName, ReqRec, Creating
    <2>2. sibling' = sibling \ {req[t].path}
      BY <1>1, <2>1 DEF DispatchName, removeDirectory, removeFile
    <2> QED BY <2>2
  <1>2. ASSUME NEW t \in Threads, Kernel(t) \/ Handler(t), ~DispatchName(t) PROVE UNCHANGED sibling
    BY <1>2 DEF Kernel, SendName, SendRead, SendWrite, Send, Handler, Dispatch, HideOpen,
      releaseFiles, cacheDies, getAttributeFile, readFileFile, readFileStore, writeFileFile, Call,
      getAttributeReturn, getFileInfoThrows, readFileReturn, writeFileReturn, dirs
  <1>3. ASSUME NEW t \in Threads, Network(t) \/ Failing(t) PROVE UNCHANGED sibling
    BY <1>3 DEF Network, Failing, dirs
  <1>4. Main \/ Unmount \/ UNCHANGED vars => UNCHANGED sibling
    BY DEF Main, Unmount, vars, dirs
  <1> QED BY <1>1, <1>2, <1>3, <1>4 DEF Next

(* No sequence of requests adds a remote name or removes one, or makes     *)
(* anything in the directory next to the cache's: for any operations that  *)
(* the kernel may send.                                                    *)
THEOREM NamesAreKept == Spec => MountKeepsNames
  <1>1. NamesAll /\ [Next]_vars => [DOMAIN files' = DOMAIN files /\ sibling' \subseteq sibling]_vars
    BY StepKeepsNames, StepKeepsSibling
  <1> QED BY <1>1, InitNames, NextNames, PTL DEF Spec, MountKeepsNames

-----------------------------------------------------------------------------
(* Cells in their places.                                                  *)

(* What is read from a place is what belongs there.                        *)
LEMMA PlacedRead ==
    ASSUME NEW f, IsFile(f), NEW len \in Nat, NEW off \in Nat, Placed(f, 0)
    PROVE  Placed(pread(f, len, off), off)
  <1> DEFINE r == pread(f, len, off)
  <1>1. f \in Seq(Cells)
    BY DEF IsFile
  <1>2. \A i \in 1..Len(r) : off + i \in 1..Len(f) /\ r[i] = f[off + i]
    BY <1>1, PreadAt
  <1> HIDE DEF r
  <1>3. \A j \in 1..Len(f) : f[j] = Zero \/ f[j][2] = j
    BY <1>1 DEF Placed
  <1> QED BY <1>2, <1>3 DEF Placed, r

(* A write of cells to their places leaves every cell in its place.        *)
LEMMA PlacedWrite ==
    ASSUME NEW f, IsFile(f), NEW data \in Seq(Cells), NEW off \in Nat, Placed(f, 0),
           Placed(data, off)
    PROVE  Placed(pwrite(f, data, off), 0)
  <1> DEFINE r == pwrite(f, data, off)
  <1>1. f \in Seq(Cells)
    BY DEF IsFile
  <1>2. /\ Len(r) \in Nat
        /\ \A i \in 1..Len(data) : r[off + i] = data[i]
        /\ \A i \in 1..Len(f) : ~(i > off /\ i <= off + Len(data)) => r[i] = f[i]
        /\ \A i \in 1..Len(r) : ~(i > off /\ i <= off + Len(data)) /\ ~(i <= Len(f)) => r[i] = Zero
    BY <1>1, PwriteAt
  <1> HIDE DEF r
  <1>3. Len(f) \in Nat /\ Len(data) \in Nat
    BY <1>1
  <1>4. ASSUME NEW i \in 1..Len(r) PROVE r[i] = Zero \/ r[i][2] = i
    <2>1. CASE i > off /\ i <= off + Len(data)
      <3>1. i - off \in 1..Len(data) /\ off + (i - off) = i
        BY <1>2, <1>3, <2>1
      <3>2. r[i] = data[i - off]
        BY <1>2, <3>1
      <3>3. data[i - off] = Zero \/ data[i - off][2] = off + (i - off)
        BY <3>1 DEF Placed
      <3> QED BY <3>1, <3>2, <3>3
    <2>2. CASE ~(i > off /\ i <= off + Len(data)) /\ i <= Len(f)
      <3>1. i \in 1..Len(f) /\ 0 + i = i
        BY <1>2, <1>3, <2>2
      <3> QED BY <1>2, <2>2, <3>1 DEF Placed
    <2>3. CASE ~(i > off /\ i <= off + Len(data)) /\ ~(i <= Len(f))
      BY <1>2, <2>3
    <2> QED BY <2>1, <2>2, <2>3
  <1>5. \A i \in 1..Len(r) : 0 + i = i
    BY <1>2
  <1> QED BY <1>4, <1>5 DEF Placed, r

(* What was written can be read back.                                      *)
LEMMA ReadBack ==
    ASSUME NEW f, IsFile(f), NEW data \in Seq(Cells), NEW off \in Nat, Len(data) > 0
    PROVE  pread(pwrite(f, data, off), Len(data), off) = data
  <1> DEFINE g == pwrite(f, data, off)
             r == pread(g, Len(data), off)
  <1>1. f \in Seq(Cells) /\ Len(data) \in Nat /\ data # <<>>
    BY DEF IsFile
  <1>2. /\ Len(g) \in Nat /\ off + Len(data) <= Len(g)
        /\ \A i \in 1..Len(data) : g[off + i] = data[i]
    BY <1>1, PwriteAt
  <1>3. g \in Seq(Cells)
    BY <1>1, PwriteFile DEF IsFile
  <1> HIDE DEF g
  <1>4. /\ Len(r) \in Nat /\ Len(r) <= Len(data)
        /\ \A i \in 1..Len(r) : r[i] = g[off + i]
        /\ \A i \in 1..Len(data) : off + i <= Len(g) => i \in 1..Len(r)
    BY <1>1, <1>3, PreadAt
  <1>5. r \in Seq(Cells)
    BY <1>1, <1>3, PreadSeq
  <1> HIDE DEF r
  <1>6. Len(r) = Len(data)
    <2>1. Len(data) \in 1..Len(data) /\ off + Len(data) <= Len(g)
      BY <1>1, <1>2
    <2>2. Len(data) \in 1..Len(r)
      BY <1>4, <2>1
    <2> QED BY <1>1, <1>4, <2>2
  <1>7. \A i \in 1..Len(r) : r[i] = data[i]
    BY <1>2, <1>4, <1>6
  <1>8. r = data
    BY <1>5, <1>6, <1>7, SeqEqual
  <1> QED BY <1>8 DEF r, g

-----------------------------------------------------------------------------
(* What the threads that take no part in a step can rely on.               *)

(* A thread without a request has no transfer.                             *)
LEMMA IdleThread ==
    ASSUME NamesAll, NEW u \in Threads, ~Active(u)
    PROVE  net[u] = NoTransfer /\ req[u].st = "idle" /\ req[u].op = "none"
  BY DEF NamesAll, NetInv, NetOK, Active, Idle

(* No transfer holds nothing.                                              *)
LEMMA NoHolds ==
    ASSUME NEW u \in Threads, net'[u] = NoTransfer
    PROVE  NetHolds(net'[u], req'[u], httpMode', seen'[u], faults' = 0)
  <1>1. net'[u].st = "none"
    BY DEF NoTransfer
  <1> QED BY <1>1 DEF NetHolds

(* More contents make more answers right.                                  *)
LEMMA BodiesGrow ==
    ASSUME NEW q, NEW vs, NEW ws, vs \subseteq ws
    PROVE  Bodies(q, vs) \subseteq Bodies(q, ws)
  <1>1. Sizes(q, vs) \subseteq Sizes(q, ws)
    BY DEF Sizes
  <1>2. CASE q.op = "read"
    BY <1>2 DEF Bodies
  <1>3. CASE q.op # "read"
    BY <1>1, <1>3 DEF Bodies
  <1> QED BY <1>2, <1>3

(* A transfer that waits is still right when the file has other contents.  *)
LEMMA HoldsGrow ==
    ASSUME NEW u \in Threads, NetHolds(net[u], req[u], httpMode, seen[u], faults = 0),
           net'[u] = net[u], req'[u] = req[u], UNCHANGED url, seen[u] \subseteq seen'[u],
           faults' = 0 => faults = 0
    PROVE  NetHolds(net'[u], req'[u], httpMode', seen'[u], faults' = 0)
  <1>1. Bodies(req[u], seen[u]) \subseteq Bodies(req[u], seen'[u])
    BY BodiesGrow
  <1>2. httpMode' <=> httpMode
    BY DEF httpMode
  <1> QED BY <1>1, <1>2 DEF NetHolds

(* The transfers and the reads under way after a step of thread t.         *)
LEMMA OthersData ==
    ASSUME DataAll, NEW t \in Threads, UNCHANGED url, faults' = 0 => faults = 0,
           \A u \in Threads : u # t => req'[u] = req[u],
           \A u \in Threads : u # t => net'[u] = net[u],
           \A u \in Threads : u # t /\ Active(u) => seen[u] \subseteq seen'[u],
           NetHolds(net'[t], req'[t], httpMode', seen'[t], faults' = 0),
           req'[t].st = "store" =>
               \E v \in seen'[t] : req'[t].out = pread(v, req'[t].len, req'[t].off)
    PROVE  NetData' /\ StoreData'
  <1>1. ASSUME NEW u \in Threads, u # t
        PROVE  NetHolds(net'[u], req'[u], httpMode', seen'[u], faults' = 0)
    <2>1. CASE Active(u)
      BY <1>1, <2>1, HoldsGrow DEF DataAll, NetData
    <2>2. CASE ~Active(u)
      <3>1. net'[u] = NoTransfer
        BY <1>1, <2>2, IdleThread DEF DataAll
      <3> QED BY <3>1, NoHolds
    <2> QED BY <2>1, <2>2
  <1>2. NetData'
    BY <1>1 DEF NetData
  <1>3. ASSUME NEW u \in Threads, u # t, req'[u].st = "store"
        PROVE  \E v \in seen'[u] : req'[u].out = pread(v, req'[u].len, req'[u].off)
    <2>1. Active(u) /\ req[u].st = "store"
      BY <1>3 DEF Active, Idle
    <2>2. \E v \in seen[u] : req[u].out = pread(v, req[u].len, req[u].off)
      BY <2>1 DEF DataAll, StoreData
    <2> QED BY <1>3, <2>1, <2>2
  <1>4. StoreData'
    BY <1>3 DEF StoreData
  <1> QED BY <1>2, <1>4

(* An answer stays right until the next request is sent.                   *)
LEMMA RetGrows ==
    ASSUME DataAll, UNCHANGED <<url, ret>>, faults' = 0 => faults = 0,
           \A u \in Threads : seen[u] \subseteq seen'[u]
    PROVE  RetInv'
  <1>1. RetInv
    BY DEF DataAll
  <1>2. FileMode' <=> FileMode
    BY DEF FileMode
  <1>3. CASE ret = NoRet
    <2>1. ret'.req.op = "none"
      BY <1>3 DEF NoRet, Idle
    <2>2. ~Got("read")' /\ ~Got("write")' /\ ~Got("getattr")'
      BY <2>1 DEF Got
    <2> QED BY <1>3, <2>2 DEF RetInv, ReadIsSnapshot, AckedWriteApplied, AttributesAreTrue
  <1>4. CASE ret.by \in Threads
    <2>1. seen[ret.by] \subseteq seen'[ret'.by] /\ ret'.by \in Threads
      BY <1>4
    <2>2. ReadIsSnapshot'
      BY <1>1, <2>1 DEF RetInv, ReadIsSnapshot, Got
    <2>3. AckedWriteApplied'
      BY <1>1, <1>2, <2>1 DEF RetInv, AckedWriteApplied, Got
    <2>4. AttributesAreTrue'
      BY <1>1, <2>1 DEF RetInv, AttributesAreTrue, Got
    <2> QED BY <2>1, <2>2, <2>3, <2>4 DEF RetInv
  <1> QED BY <1>1, <1>3, <1>4 DEF RetInv

(* The contents that the requests saw, when no file changes.               *)
LEMMA SeenSame ==
    ASSUME DataAll, UNCHANGED <<files, seen>>,
           \A u \in Threads : req'[u] # Idle => req[u] # Idle /\ req'[u].path = req[u].path
    PROVE  SeenInv'
  <1> QED BY DEF DataAll, SeenInv, Active, IsFile

(* The contents that the requests saw, when a file does.                   *)
LEMMA NotedSeen ==
    ASSUME DataAll, NamesAll', Noted,
           \A u \in Threads : req'[u] # Idle => req[u] # Idle /\ req'[u].path = req[u].path
    PROVE  /\ SeenInv' /\ \A u \in Threads : seen[u] \subseteq seen'[u]
           /\ \A u \in Threads : Active(u) /\ req[u].path \in DOMAIN files' =>
                files'[req[u].path] \in seen'[u]
  <1>1. ASSUME NEW u \in Threads
        PROVE  seen'[u] = IF Active(u) THEN seen[u] \cup Versions(files', req[u].path) ELSE seen[u]
    BY DEF Noted
  <1>2. \A u \in Threads : seen[u] \subseteq seen'[u]
    BY <1>1
  <1>3. ASSUME NEW u \in Threads, Active(u), req[u].path \in DOMAIN files'
        PROVE  files'[req[u].path] \in seen'[u]
    BY <1>1, <1>3 DEF Versions
  <1>4. ASSUME NEW u \in Threads, NEW v \in seen'[u] PROVE v \in Seq(Cells)
    <2>1. CASE v \in seen[u]
      BY <2>1 DEF DataAll, SeenInv, IsFile
    <2>2. CASE v \notin seen[u]
      <3>1. v \in Versions(files', req[u].path)
        BY <1>1, <1>4, <2>2
      <3>2. req[u].path \in DOMAIN files' /\ v = files'[req[u].path]
        BY <3>1 DEF Versions
      <3> QED BY <3>2 DEF NamesAll, FilesInv, IsFile
    <2> QED BY <2>1, <2>2
  <1>5. SeenInv'
    BY <1>3, <1>4 DEF SeenInv, Active, IsFile
  <1> QED BY <1>2, <1>3, <1>5

-----------------------------------------------------------------------------
(* The data through the handlers.                                          *)

(* An answer about which nothing is promised: to another request, or that  *)
(* the request failed.                                                     *)
LEMMA RetPlain ==
    ASSUME NEW t \in Threads, NEW res, NEW out, Answer(t, res, out),
           req[t].op \notin {"read", "write", "getattr"} \/ res = -1
    PROVE  RetInv'
  <1>1. ret'.by = t /\ ret'.req = req[t] /\ ret'.res = res
    BY DEF Answer
  <1>2. ~(-1 >= 0) /\ -1 # 0
    OBVIOUS
  <1>3. ReadIsSnapshot' /\ AckedWriteApplied' /\ AttributesAreTrue'
    BY <1>1, <1>2 DEF ReadIsSnapshot, AckedWriteApplied, AttributesAreTrue, Got
  <1> QED BY <1>1, <1>3 DEF RetInv

(* An answer that is right, and changes neither files nor copies.          *)
LEMMA AnswerData ==
    ASSUME DataAll, NamesAll', NEW t \in Threads, NEW res, NEW out, Answer(t, res, out),
           phase = "mounted", UNCHANGED <<phase, url, files, copies, seen, faults>>,
           net' = [net EXCEPT ![t] = NoTransfer] \/ (UNCHANGED net /\ net[t] = NoTransfer),
           RetInv'
    PROVE  DataAll'
  <1>1. ThreadsInv
    BY DEF DataAll, NamesAll
  <1>2. /\ req'[t] = Idle /\ \A u \in Threads : u # t => req'[u] = req[u]
    BY <1>1 DEF Answer, ThreadsInv
  <1>3. /\ net'[t] = NoTransfer /\ \A u \in Threads : u # t => net'[u] = net[u]
    BY <1>1 DEF ThreadsInv
  <1>4. Idle.st = "idle" /\ Idle.op = "none"
    BY DEF Idle
  <1>5. PlaceInv'
    BY <1>2, <1>4 DEF DataAll, PlaceInv
  <1>6. SeenInv'
    BY <1>2, SeenSame
  <1>7. NetHolds(net'[t], req'[t], httpMode', seen'[t], faults' = 0)
    BY <1>3, NoHolds
  <1>8. NetData' /\ StoreData'
    BY <1>2, <1>3, <1>4, <1>7, OthersData
  <1>9. Survives'
    BY DEF Survives
  <1> QED BY <1>5, <1>6, <1>8, <1>9 DEF DataAll

(* The handlers that look at no file.                                      *)
LEMMA DispatchData ==
    ASSUME DataAll, NEW t \in Threads,
           Dispatch(t) \/ DispatchName(t) \/ HideOpen(t) \/ releaseFiles(t)
    PROVE  DataAll'
  <1>0. NamesAll
    BY DEF DataAll
  <1>1. PICK ops : Handles(t, ops) /\ ops \cap {"read", "write", "getattr"} = {}
    BY DEF Dispatch, DispatchName, HideOpen, releaseFiles
  <1>2. phase = "mounted" /\ req[t].op \notin {"read", "write", "getattr"} /\ net[t] = NoTransfer
    BY <1>0, <1>1, Handling
  <1>3. UNCHANGED <<phase, url, files, copies, seen, faults, net>>
    BY DEF Dispatch, DispatchName, HideOpen, releaseFiles, cache, remote
  <1>4. \E res, out : Answer(t, res, out)
    BY DEF Dispatch, DispatchName, HideOpen, releaseFiles
  <1>5. PICK res, out : Answer(t, res, out)
    BY <1>4
  <1>6. RetInv'
    BY <1>2, <1>5, RetPlain
  <1>7. NamesAll'
    BY <1>0, DispatchNames
  <1> QED BY <1>2, <1>3, <1>5, <1>6, <1>7, AnswerData

(* A lookup in the remote directory tells the truth.                       *)
LEMMA AttributeFileData ==
    ASSUME DataAll, NEW t \in Threads, getAttributeFile(t)
    PROVE  DataAll'
  <1> DEFINE p == req[t].path
  <1>0. NamesAll /\ NamesAll'
    BY AttributeFileNames DEF DataAll
  <1>1. Handles(t, {"getattr"}) /\ UNCHANGED <<phase, url, files, copies, seen, faults, net>>
    BY DEF getAttributeFile, cache, remote
  <1>2. phase = "mounted" /\ req[t].op = "getattr" /\ net[t] = NoTransfer /\ Active(t)
    BY <1>0, <1>1, Handling DEF Active, Idle
  <1>3. ~(p \in Dirs /\ p \in DOMAIN files)
    BY <1>0 DEF NamesAll, FilesInv
  <1>4. PICK res, out : /\ Answer(t, res, out)
                        /\ \/ res = -1
                           \/ /\ res = 0 /\ isFile(p) /\ out = Attributes(FALSE, Len(files[p]))
                           \/ /\ res = 0 /\ isDir(p) /\ out = Attributes(TRUE, 0)
    <2>1. CASE isFile(p)
      <3>1. ~isDir(p)
        BY <1>3, <2>1 DEF isFile, isDir
      <3> QED BY <2>1, <3>1 DEF getAttributeFile
    <2>2. CASE ~isFile(p) /\ isDir(p)
      BY <2>2 DEF getAttributeFile
    <2>3. CASE ~isFile(p) /\ ~isDir(p)
      BY <2>3 DEF getAttributeFile, Error
    <2> QED BY <2>1, <2>2, <2>3
  <1>5. RetInv'
    <2>1. CASE res = -1
      BY <1>4, <2>1, RetPlain
    <2>2. CASE res # -1
      <3>1. ret'.by = t /\ ret'.req = req[t] /\ ret'.out = out
        BY <1>4 DEF Answer
      <3>2. ReadIsSnapshot' /\ AckedWriteApplied'
        BY <1>2, <3>1 DEF ReadIsSnapshot, AckedWriteApplied, Got
      <3>3. CASE isFile(p) /\ out = Attributes(FALSE, Len(files[p]))
        <4>1. p \in DOMAIN files /\ p \notin Dirs
          BY <1>3, <3>3 DEF isFile
        <4>2. files[p] \in seen'[t]
          BY <1>1, <1>2, <4>1 DEF DataAll, SeenInv
        <4>3. ret'.req.path = p /\ ret'.out.dir = FALSE /\ ret'.out.size = Len(files[p])
          BY <3>1, <3>3 DEF Attributes
        <4>4. ret'.out.dir = (ret'.req.path \in Dirs)
          <5>1. (p \in Dirs) = FALSE
            BY <4>1
          <5>2. ret'.req.path = p /\ ret'.out.dir = FALSE
            BY <4>3
          <5> HIDE DEF p
          <5> QED BY ONLY <5>1, <5>2, Zenon
        <4>5. \E v \in seen'[ret'.by] : ret'.out.size = Len(v)
          BY <3>1, <4>2, <4>3
        <4>6. AttributesAreTrue'
          BY <4>4, <4>5 DEF AttributesAreTrue
        <4> QED BY <3>1, <3>2, <4>6 DEF RetInv
      <3>4. CASE isDir(p) /\ out = Attributes(TRUE, 0)
        <4>1. p \in Dirs /\ ret'.req.path = p /\ ret'.out.dir = TRUE
          BY <3>1, <3>4 DEF Attributes, isDir
        <4>2. AttributesAreTrue'
          BY <4>1 DEF AttributesAreTrue
        <4> QED BY <3>1, <3>2, <4>2 DEF RetInv
      <3> QED BY <1>4, <2>2, <3>3, <3>4
    <2> QED BY <2>1, <2>2
  <1> QED BY <1>0, <1>1, <1>2, <1>4, <1>5, AnswerData

(* A read of the remote directory takes what the file has now.             *)
LEMMA ReadFileData ==
    ASSUME DataAll, NEW t \in Threads, readFileFile(t)
    PROVE  DataAll'
  <1> DEFINE p == req[t].path
             o == pread(files[p], req[t].len, req[t].off)
  <1>0. NamesAll /\ NamesAll'
    BY ReadFileNames DEF DataAll
  <1>1. Handles(t, {"read"}) /\ FileMode /\ UNCHANGED <<phase, url, files, copies, seen, faults, net>>
    BY DEF readFileFile, cache, remote
  <1>2. /\ phase = "mounted" /\ req[t].op = "read" /\ net[t] = NoTransfer /\ req[t] # Idle
        /\ req[t] \in ReqRec /\ p \in DOMAIN files
    BY <1>0, <1>1, Handling DEF Idle
  <1>3. CASE Answer(t, Error, <<>>)
    <2>1. RetInv'
      BY <1>3, RetPlain DEF Error
    <2> QED BY <1>0, <1>1, <1>2, <1>3, <2>1, AnswerData
  <1>4. CASE /\ req' = [req EXCEPT ![t].st = "store", ![t].out = o]
             /\ UNCHANGED <<kernel, ret>>
    <2> DEFINE q == [req[t] EXCEPT !.st = "store", !.out = o]
    <2>1. req'[t] = q /\ \A u \in Threads : u # t => req'[u] = req[u]
      BY <1>0, <1>4 DEF NamesAll, ThreadsInv
    <2>2. /\ q.st = "store" /\ q.op = "read" /\ q.path = p /\ q.len = req[t].len
          /\ q.off = req[t].off /\ q.out = o
      BY <1>2 DEF ReqRec
    <2>3. Placed(o, req[t].off)
      <3>1. IsFile(files[p]) /\ Placed(files[p], 0) /\ req[t].len \in Nat /\ req[t].off \in Nat
        BY <1>0, <1>1, <1>2 DEF NamesAll, FilesInv, FileMode, DataAll, PlaceInv, ReqRec
      <3> QED BY <3>1, PlacedRead
    <2>4. files[p] \in seen'[t]
      BY <1>1, <1>2 DEF DataAll, SeenInv, Active
    <2>5. \E v \in seen'[t] : o = pread(v, req[t].len, req[t].off)
      BY <2>4
    <2> HIDE DEF o, q, p
    <2>6. PlaceInv'
      <3>1. \A u \in Threads : /\ req'[u].op = "write" => Placed(req'[u].data, req'[u].off)
                               /\ req'[u].st = "store" => Placed(req'[u].out, req'[u].off)
        BY <2>1, <2>2, <2>3 DEF DataAll, PlaceInv
      <3> QED BY <1>1, <3>1 DEF DataAll, PlaceInv
    <2>7. SeenInv'
      BY <1>1, <1>2, <2>1, <2>2, SeenSame DEF p
    <2>8. /\ NetHolds(net'[t], req'[t], httpMode', seen'[t], faults' = 0)
          /\ \E v \in seen'[t] : req'[t].out = pread(v, req'[t].len, req'[t].off)
      BY <1>1, <1>2, <2>1, <2>2, <2>5, NoHolds
    <2>9. NetData' /\ StoreData'
      BY <1>1, <2>1, <2>8, OthersData
    <2>10. RetInv'
      BY <1>1, <1>4, RetGrows
    <2>11. Survives'
      BY <1>1, <1>2 DEF Survives
    <2> QED BY <1>0, <2>6, <2>7, <2>9, <2>10, <2>11 DEF DataAll
  <1> QED BY <1>3, <1>4 DEF readFileFile

(* What was read is stored where it was read.                              *)
LEMMA StoreFileData ==
    ASSUME DataAll, NEW t \in Threads, readFileStore(t)
    PROVE  DataAll'
  <1> DEFINE p == req[t].path
             c == Content(copies, p)
             f == pwrite(c, req[t].out, req[t].off)
  <1>0. NamesAll /\ NamesAll'
    BY StoreNames DEF DataAll
  <1>1. /\ phase = "mounted" /\ req[t].st = "store"
        /\ copies' = cache_store_file(p, req[t].out, req[t].off)
        /\ Answer(t, Len(req[t].out), req[t].out)
        /\ UNCHANGED <<phase, url, files, net, faults, seen>>
    BY DEF readFileStore, remote
  <1>2. /\ req[t] \in ReqRec /\ req[t].op = "read" /\ net[t] = NoTransfer
    BY <1>0, <1>1, Working
  <1>3. Placed(f, 0)
    <2>1. IsFile(c) /\ Placed(c, 0)
      BY <1>0 DEF NamesAll, CopiesInv, Content, IsFile, DataAll, PlaceInv, Placed
    <2>2. Placed(req[t].out, req[t].off) /\ req[t].out \in Seq(Cells) /\ req[t].off \in Nat
      BY <1>1, <1>2 DEF DataAll, PlaceInv, ReqRec
    <2> HIDE DEF c
    <2> QED BY <2>1, <2>2, PlacedWrite
  <1>4. copies' = copies \/ copies' = Stored(copies, p, f)
    BY <1>1 DEF cache_store_file
  <1>5. RetInv'
    <2>1. ret'.by = t /\ ret'.req = req[t] /\ ret'.out = req[t].out /\ ret'.res = Len(req[t].out)
      BY <1>1 DEF Answer
    <2>2. \E v \in seen'[t] : req[t].out = pread(v, req[t].len, req[t].off)
      BY <1>1 DEF DataAll, StoreData
    <2>3. ReadIsSnapshot'
      BY <2>1, <2>2 DEF ReadIsSnapshot
    <2>4. AckedWriteApplied' /\ AttributesAreTrue'
      BY <1>2, <2>1 DEF AckedWriteApplied, AttributesAreTrue, Got
    <2> QED BY <2>1, <2>3, <2>4 DEF RetInv
  <1> HIDE DEF f, c
  <1>6. \A q \in DOMAIN copies' : Placed(copies'[q], 0)
    BY <1>3, <1>4 DEF Stored, DataAll, PlaceInv
  <1>7. /\ req'[t] = Idle /\ \A u \in Threads : u # t => req'[u] = req[u]
    BY <1>0, <1>1 DEF Answer, NamesAll, ThreadsInv
  <1>8. Idle.st = "idle" /\ Idle.op = "none"
    BY DEF Idle
  <1>9. PlaceInv'
    BY <1>1, <1>6, <1>7, <1>8 DEF DataAll, PlaceInv
  <1>10. SeenInv'
    BY <1>1, <1>7, SeenSame
  <1>11. NetHolds(net'[t], req'[t], httpMode', seen'[t], faults' = 0)
    BY <1>1, <1>2, NoHolds
  <1>12. NetData' /\ StoreData'
    BY <1>1, <1>7, <1>8, <1>11, OthersData
  <1>13. Survives'
    BY <1>1 DEF Survives
  <1> QED BY <1>0, <1>5, <1>9, <1>10, <1>12, <1>13 DEF DataAll

(* A write to the remote directory is there when it is answered.           *)
LEMMA WriteFileData ==
    ASSUME DataAll, NEW t \in Threads, writeFileFile(t)
    PROVE  DataAll'
  <1> DEFINE p == req[t].path
             c == Content(files, p)
             f == pwrite(c, req[t].data, req[t].off)
  <1>0. NamesAll /\ NamesAll'
    BY WriteFileNames DEF DataAll
  <1>1. /\ Handles(t, {"write"}) /\ Noted /\ FileMode
        /\ UNCHANGED <<phase, url, copies, net, faults>>
        /\ \/ UNCHANGED files /\ Answer(t, Error, <<>>)
           \/ files' = Stored(files, p, f) /\ Answer(t, req[t].len, <<>>)
    BY DEF writeFileFile, cache
  <1>2. /\ phase = "mounted" /\ req[t].st = "sent" /\ req[t].op = "write" /\ net[t] = NoTransfer
        /\ req[t] \in ReqRec /\ p \in DOMAIN files /\ Active(t)
    BY <1>0, <1>1, Handling DEF Active, Idle
  <1>3. Len(req[t].data) = req[t].len /\ req[t].len > 0 /\ req[t].data \in Seq(Cells) /\ req[t].off \in Nat
    BY <1>0, <1>2, Working DEF ReqRec
  <1>4. c = files[p] /\ IsFile(c) /\ Placed(c, 0) /\ Placed(req[t].data, req[t].off)
    BY <1>0, <1>1, <1>2 DEF Content, NamesAll, FilesInv, FileMode, DataAll, PlaceInv
  <1> HIDE DEF c
  <1>5. Placed(f, 0) /\ pread(f, req[t].len, req[t].off) = req[t].data
    BY <1>3, <1>4, PlacedWrite, ReadBack
  <1> HIDE DEF f
  <1>6. /\ req'[t] = Idle /\ \A u \in Threads : u # t => req'[u] = req[u]
    BY <1>0, <1>1 DEF Answer, NamesAll, ThreadsInv
  <1>7. Idle.st = "idle" /\ Idle.op = "none"
    BY DEF Idle
  <1>8. /\ SeenInv' /\ \A u \in Threads : seen[u] \subseteq seen'[u]
        /\ p \in DOMAIN files' => files'[p] \in seen'[t]
    BY <1>0, <1>1, <1>2, <1>6, NotedSeen
  <1>9. \A q \in DOMAIN files' : Placed(files'[q], 0)
    <2>1. \A q \in DOMAIN files : Placed(files[q], 0)
      BY <1>1 DEF FileMode, DataAll, PlaceInv
    <2> QED BY <1>1, <1>5, <2>1 DEF Stored
  <1>10. PlaceInv'
    BY <1>1, <1>6, <1>7, <1>9 DEF DataAll, PlaceInv
  <1>11. NetHolds(net'[t], req'[t], httpMode', seen'[t], faults' = 0)
    BY <1>1, <1>2, NoHolds
  <1>12. NetData' /\ StoreData'
    BY <1>1, <1>6, <1>7, <1>8, <1>11, OthersData
  <1>13. RetInv'
    <2>1. CASE Answer(t, Error, <<>>)
      BY <2>1, RetPlain DEF Error
    <2>2. CASE files' = Stored(files, p, f) /\ Answer(t, req[t].len, <<>>)
      <3>1. ret'.by = t /\ ret'.req = req[t] /\ ret'.res = req[t].len
        BY <2>2 DEF Answer
      <3>2. f \in seen'[t]
        BY <1>8, <2>2 DEF Stored
      <3>3. FileMode'
        BY <1>1 DEF FileMode
      <3>4. AckedWriteApplied'
        BY <1>5, <3>1, <3>2, <3>3 DEF AckedWriteApplied
      <3>5. ReadIsSnapshot' /\ AttributesAreTrue'
        BY <1>2, <3>1 DEF ReadIsSnapshot, AttributesAreTrue, Got
      <3> QED BY <3>1, <3>4, <3>5 DEF RetInv
    <2> QED BY <1>1, <2>1, <2>2
  <1>14. Survives'
    BY <1>1, <1>2 DEF Survives
  <1> QED BY <1>0, <1>8, <1>10, <1>12, <1>13, <1>14 DEF DataAll

(* A request that is handed to the backend.                                *)
LEMMA CallData ==
    ASSUME DataAll, NEW t \in Threads, Call(t)
    PROVE  DataAll'
  <1>0. NamesAll /\ NamesAll'
    BY CallNames DEF DataAll
  <1>1. /\ req' = [req EXCEPT ![t].st = "call"]
        /\ UNCHANGED <<phase, url, copies, ret, files, faults, seen>>
    BY DEF Call, cache
  <1>2. PICK r : net' = [net EXCEPT ![t] = r] /\ r.st = "sent"
    <2>1. ASSUME NEW e, NEW p, NEW n, NEW off, download(t, e, p, n, off)
          PROVE  \E r : net' = [net EXCEPT ![t] = r] /\ r.st = "sent"
      <3> DEFINE r == [st |-> "sent", verb |-> "GET", endpoint |-> e, path |-> p, len |-> n,
                       off |-> off, data |-> <<>>]
      <3>1. net' = [net EXCEPT ![t] = r]
        BY <2>1 DEF download, Request
      <3>2. r.st = "sent"
        OBVIOUS
      <3> HIDE DEF r
      <3> QED BY <3>1, <3>2
    <2>2. ASSUME NEW e, NEW p, NEW d, NEW off, upload(t, e, p, d, off)
          PROVE  \E r : net' = [net EXCEPT ![t] = r] /\ r.st = "sent"
      <3> DEFINE r == [st |-> "sent", verb |-> "PUT", endpoint |-> e, path |-> p, len |-> Len(d),
                       off |-> off, data |-> d]
      <3>1. net' = [net EXCEPT ![t] = r]
        BY <2>2 DEF upload, Request
      <3>2. r.st = "sent"
        OBVIOUS
      <3> HIDE DEF r
      <3> QED BY <3>1, <3>2
    <2> QED BY <2>1, <2>2 DEF Call, getAttributeCall, readFileCall, writeFileCall
  <1>3. \E ops : Handles(t, ops)
    BY DEF Call, getAttributeCall, readFileCall, writeFileCall
  <1>4. phase = "mounted" /\ req[t] \in ReqRec /\ req[t] # Idle
    BY <1>0, <1>3, Handling DEF Idle
  <1> DEFINE q == [req[t] EXCEPT !.st = "call"]
  <1>5. /\ req'[t] = q /\ (\A u \in Threads : u # t => req'[u] = req[u])
        /\ net'[t] = r /\ (\A u \in Threads : u # t => net'[u] = net[u])
    BY <1>0, <1>1, <1>2 DEF NamesAll, ThreadsInv
  <1>6. q.st = "call" /\ q.op = req[t].op /\ q.path = req[t].path /\ q.data = req[t].data /\ q.off = req[t].off
    BY <1>4 DEF ReqRec
  <1> HIDE DEF q
  <1>7. PlaceInv'
    <2>1. \A u \in Threads : /\ req'[u].op = "write" => Placed(req'[u].data, req'[u].off)
                             /\ req'[u].st = "store" => Placed(req'[u].out, req'[u].off)
      BY <1>5, <1>6 DEF DataAll, PlaceInv
    <2> QED BY <1>1, <2>1 DEF DataAll, PlaceInv
  <1>8. SeenInv'
    BY <1>1, <1>4, <1>5, <1>6, SeenSame
  <1>9. NetHolds(net'[t], req'[t], httpMode', seen'[t], faults' = 0)
    BY <1>2, <1>5 DEF NetHolds
  <1>10. NetData' /\ StoreData'
    BY <1>1, <1>5, <1>6, <1>9, OthersData
  <1>11. RetInv'
    BY <1>1, RetGrows
  <1>12. Survives'
    BY <1>1, <1>4 DEF Survives
  <1> QED BY <1>0, <1>7, <1>8, <1>10, <1>11, <1>12 DEF DataAll

(* The fields of a description.                                            *)
LEMMA DescriptionFields ==
    ASSUME NEW dir \in BOOLEAN, NEW n \in Nat
    PROVE  /\ Len(Description(dir, n)) = 5 /\ Description(dir, n)[3] = n
           /\ Description(dir, n)[5] = dir
  BY DEF Description

(* The buffer of a lookup that succeeded: the beginning of a description   *)
(* that was right meanwhile, all of it if no connection was lost.          *)
LEMMA LookupBuffer ==
    ASSUME DataAll, NEW t \in Threads, Returned(t, "getattr"), httpMode, Downloaded(t) >= 0
    PROVE  \E n \in Nat :
             /\ n \in Sizes(req[t], seen[t])
             /\ faults = 0 => /\ Len(net[t].buf) = 5 /\ net[t].buf[3] = n
                              /\ net[t].buf[5] = (req[t].path \in Dirs)
  <1> DEFINE p == req[t].path
             d == p \in Dirs
             b == net[t].buf
  <1>1. NamesAll /\ NetHolds(net[t], req[t], httpMode, seen[t], faults = 0)
    BY DEF DataAll, NetData
  <1>2. /\ req[t].op = "getattr" /\ net[t].st = "done" /\ net[t].cres /\ ok_2xx(net[t].code)
    BY <1>1, Returning DEF Succeeded, Returned, Finished
  <1>3. PICK body \in Bodies(req[t], seen[t]) :
             Begins(b, body) /\ (faults = 0 => Len(b) = Len(body))
    BY <1>1, <1>2 DEF NetHolds
  <1>4. PICK n \in Sizes(req[t], seen[t]) : body = Description(d, n)
    BY <1>2, <1>3 DEF Bodies
  <1>5. n \in Nat
    <2>1. CASE p \in Dirs
      BY <1>4, <2>1 DEF Sizes
    <2>2. CASE p \notin Dirs
      <3>1. \E v \in seen[t] : n = Len(v)
        BY <1>4, <2>2 DEF Sizes
      <3>2. \A v \in seen[t] : v \in Seq(Cells)
        BY DEF DataAll, SeenInv, IsFile
      <3> QED BY <3>1, <3>2
    <2> QED BY <2>1, <2>2
  <1>6. Len(body) = 5 /\ body[3] = n /\ body[5] = d
    <2>1. d \in BOOLEAN
      OBVIOUS
    <2> HIDE DEF d
    <2> QED BY <1>4, <1>5, <2>1, DescriptionFields
  <1> HIDE DEF b
  <1>7. ASSUME faults = 0 PROVE Len(b) = 5 /\ b[3] = n /\ b[5] = d
    <2>1. Len(b) = 5 /\ \A i \in 1..Len(b) : b[i] = body[i]
      BY <1>3, <1>6, <1>7 DEF Begins
    <2>2. b[3] = body[3] /\ b[5] = body[5]
      BY <2>1
    <2> HIDE DEF d
    <2> QED BY <1>6, <2>1, <2>2
  <1> QED BY <1>4, <1>5, <1>7 DEF b

(* A lookup through the server tells the truth, if nothing was lost.       *)
LEMMA AttributeReturnData ==
    ASSUME DataAll, NEW t \in Threads, getAttributeReturn(t)
    PROVE  DataAll'
  <1> DEFINE p == req[t].path
             b == net[t].buf
  <1>0. NamesAll /\ NamesAll'
    BY ReturnNames DEF DataAll
  <1>1. /\ UNCHANGED <<phase, url, files, copies, seen, faults>>
        /\ net' = [net EXCEPT ![t] = NoTransfer] /\ Returned(t, "getattr")
    BY DEF getAttributeReturn, cache, Hangup
  <1>2. phase = "mounted" /\ req[t].op = "getattr" /\ req[t].st = "call"
    BY <1>0, <1>1, Returning
  <1>3. p \notin DOMAIN copies
    BY <1>0, <1>2, Working DEF NamesAll, CopiesInv
  <1>4. PICK res, out : /\ Answer(t, res, out)
                        /\ \/ res = -1
                           \/ httpMode /\ Downloaded(t) >= 0 /\ out = getFileInfo(b)
    <2>1. CASE Answer(t, Error, <<>>)
      BY <2>1 DEF Error
    <2>2. CASE httpMode /\ Downloaded(t) >= 0 /\ Answer(t, 0, getFileInfo(b))
      BY <2>2
    <2>3. CASE Answer(t, IF p \in DOMAIN copies \ evicted THEN 0 ELSE Error, <<>>)
      <3>1. Answer(t, Error, <<>>)
        BY <1>3, <2>3
      <3> QED BY <3>1 DEF Error
    <2> QED BY <2>1, <2>2, <2>3 DEF getAttributeReturn
  <1>5. ret'.by = t /\ ret'.req = req[t] /\ ret'.out = out
    BY <1>4 DEF Answer
  <1>6. RetInv'
    <2>1. CASE res = -1
      BY <1>4, <2>1, RetPlain
    <2>2. CASE httpMode /\ Downloaded(t) >= 0 /\ out = getFileInfo(b)
      <3>1. ReadIsSnapshot' /\ AckedWriteApplied'
        BY <1>2, <1>5 DEF ReadIsSnapshot, AckedWriteApplied, Got
      <3>2. ASSUME faults' = 0
            PROVE  /\ ret'.out.dir = (p \in Dirs)
                   /\ p \notin Dirs => \E v \in seen'[t] : ret'.out.size = Len(v)
        <4>1. PICK n \in Nat : /\ n \in Sizes(req[t], seen[t])
                               /\ Len(b) = 5 /\ b[3] = n /\ b[5] = (p \in Dirs)
          BY <1>1, <2>2, <3>2, LookupBuffer
        <4>2. ret'.out = Attributes(Len(b) >= 5 /\ b[5], IF Len(b) >= 3 THEN b[3] ELSE 0)
          BY <1>5, <2>2 DEF getFileInfo
        <4>3. ret'.out.size = n
          BY <4>1, <4>2 DEF Attributes
        <4>4. (Len(b) >= 5) = TRUE
          BY <4>1
        <4>5. ret'.out.dir = (Len(b) >= 5 /\ b[5])
          BY <4>2 DEF Attributes
        <4>6. ret'.out.dir = (p \in Dirs)
          <5>1. b[5] = (p \in Dirs)
            BY <4>1
          <5> HIDE DEF b, p
          <5>2. CASE p \in Dirs
            <6>1. b[5] = TRUE /\ (p \in Dirs) = TRUE
              BY ONLY <5>1, <5>2, Zenon
            <6>2. (Len(b) >= 5 /\ b[5]) = TRUE
              BY ONLY <4>4, <6>1
            <6> QED BY ONLY <4>5, <6>1, <6>2, Zenon
          <5>3. CASE p \notin Dirs
            <6>0. (p \in Dirs) = FALSE
              BY ONLY <5>3
            <6>1. b[5] = FALSE /\ (p \in Dirs) = FALSE
              BY ONLY <5>1, <6>0, Zenon
            <6>2. (Len(b) >= 5 /\ b[5]) = FALSE
              BY ONLY <6>1
            <6> QED BY ONLY <4>5, <6>1, <6>2, Zenon
          <5> QED BY <5>2, <5>3
        <4>7. p \notin Dirs => \E v \in seen'[t] : n = Len(v)
          BY <1>1, <4>1 DEF Sizes
        <4> QED BY <4>3, <4>6, <4>7
      <3>3. AttributesAreTrue'
        BY <1>5, <3>2 DEF AttributesAreTrue
      <3> QED BY <1>5, <3>1, <3>3 DEF RetInv
    <2> QED BY <1>4, <2>1, <2>2
  <1> QED BY <1>0, <1>1, <1>2, <1>4, <1>6, AnswerData

(* A read returns the whole body, a write the length of what is there.     *)
LEMMA TransferReturnData ==
    ASSUME DataAll, NEW t \in Threads, readFileReturn(t) \/ writeFileReturn(t)
    PROVE  DataAll'
  <1>0. NamesAll /\ NamesAll'
    BY ReturnNames DEF DataAll
  <1>1. /\ UNCHANGED <<phase, url, files, copies, seen, faults>>
        /\ net' = [net EXCEPT ![t] = NoTransfer]
    BY DEF readFileReturn, writeFileReturn, cache, Hangup
  <1>2. NetHolds(net[t], req[t], httpMode, seen[t], faults = 0)
    BY DEF DataAll, NetData
  <1>3. ASSUME NEW op, Returned(t, op)
        PROVE  phase = "mounted" /\ req[t].op = op /\ net[t].st = "done" /\ req[t].st = "call"
    BY <1>0, <1>3, Returning DEF Returned, Finished
  <1>4. CASE readFileReturn(t)
    <2>1. Returned(t, "read") /\ Answer(t, Downloaded(t), net[t].buf)
      BY <1>4 DEF readFileReturn
    <2>2. ret'.by = t /\ ret'.req = req[t] /\ ret'.out = net[t].buf /\ ret'.res = Downloaded(t)
      BY <2>1 DEF Answer
    <2>3. ASSUME Downloaded(t) >= 0
          PROVE  /\ Downloaded(t) = Len(net[t].buf)
                 /\ \E v \in seen'[t] : net[t].buf = pread(v, req[t].len, req[t].off)
      <3>1. Succeeded(t)
        BY <1>0, <2>1, <2>3, Returning
      <3>2. net[t].buf \in Bodies(req[t], seen[t]) /\ req[t].op = "read"
        BY <1>2, <1>3, <2>1, <3>1 DEF NetHolds, Succeeded
      <3> QED BY <1>1, <3>1, <3>2 DEF Bodies, Downloaded
    <2>4. ReadIsSnapshot'
      BY <2>2, <2>3 DEF ReadIsSnapshot
    <2>5. req[t].op = "read" /\ phase = "mounted"
      BY <1>3, <2>1
    <2>6. AckedWriteApplied' /\ AttributesAreTrue'
      BY <2>2, <2>5 DEF AckedWriteApplied, AttributesAreTrue, Got
    <2>7. RetInv'
      BY <2>2, <2>4, <2>6 DEF RetInv
    <2> QED BY <1>0, <1>1, <2>1, <2>5, <2>7, AnswerData
  <1>5. CASE writeFileReturn(t)
    <2>1. Returned(t, "write") /\ Answer(t, Uploaded(t), <<>>)
      BY <1>5 DEF writeFileReturn
    <2>2. ret'.by = t /\ ret'.req = req[t] /\ ret'.res = Uploaded(t)
      BY <2>1 DEF Answer
    <2>3. ASSUME Uploaded(t) >= 0
          PROVE  Uploaded(t) = req[t].len /\ req[t].data \in seen'[t]
      <3>1. Succeeded(t)
        BY <1>0, <2>1, <2>3, Returning
      <3>2. net[t].len = req[t].len /\ req[t].data \in seen[t]
        BY <1>2, <1>3, <2>1, <3>1 DEF NetHolds, Succeeded
      <3> QED BY <1>1, <3>1, <3>2 DEF Uploaded
    <2>4. ~FileMode'
      <3>1. ~FileMode
        BY <1>0, <1>3, <2>1, Working
      <3> QED BY <1>1, <3>1 DEF FileMode
    <2>5. AckedWriteApplied'
      BY <2>2, <2>3, <2>4 DEF AckedWriteApplied
    <2>6. req[t].op = "write" /\ phase = "mounted"
      BY <1>3, <2>1
    <2>7. ReadIsSnapshot' /\ AttributesAreTrue'
      BY <2>2, <2>6 DEF ReadIsSnapshot, AttributesAreTrue, Got
    <2>8. RetInv'
      BY <2>2, <2>5, <2>7 DEF RetInv
    <2> QED BY <1>0, <1>1, <2>1, <2>6, <2>8, AnswerData
  <1> QED BY <1>4, <1>5

(* A process that dies keeps its data.                                     *)
LEMMA DeadData ==
    ASSUME DataAll, NEW t \in Threads, getFileInfoThrows(t) \/ cacheDies(t), Survives'
    PROVE  DataAll'
  <1>0. NamesAll /\ NamesAll'
    BY ThrowsNames DEF DataAll
  <1>1. UNCHANGED <<url, copies, files, net, faults, req, ret, seen>>
    BY DEF getFileInfoThrows, cacheDies, cache, remote
  <1>2. PlaceInv'
    BY <1>1 DEF DataAll, PlaceInv
  <1>3. SeenInv'
    BY <1>1, SeenSame
  <1>4. NetData'
    <2>1. httpMode' = httpMode
      BY <1>1 DEF httpMode
    <2> QED BY <1>1, <2>1 DEF DataAll, NetData
  <1>5. StoreData'
    BY <1>1 DEF DataAll, StoreData
  <1>6. RetInv'
    BY <1>1, RetGrows
  <1> QED BY <1>0, <1>2, <1>3, <1>4, <1>5, <1>6 DEF DataAll

(* The exception takes a lost connection or a file that is too large.      *)
LEMMA ThrowsData ==
    ASSUME DataAll, NEW t \in Threads, getFileInfoThrows(t)
    PROVE  DataAll'
  <1> DEFINE b == net[t].buf
  <1>0. NamesAll
    BY DEF DataAll
  <1>1. /\ Returned(t, "getattr") /\ httpMode /\ Downloaded(t) >= 0 /\ stoiThrows(b)
        /\ UNCHANGED <<url, faults, seen>>
    BY DEF getFileInfoThrows, cache, remote
  <1>2. ~FileMode'
    BY <1>1 DEF httpMode, FileMode
  <1>3. CASE faults = 0
    <2>1. PICK n \in Nat : n \in Sizes(req[t], seen[t]) /\ Len(b) = 5 /\ b[3] = n
      BY <1>1, <1>3, LookupBuffer
    <2> HIDE DEF b
    <2>2. n > IntMax /\ IntMax \in Nat
      BY <1>1, <2>1, FuseAssumption DEF stoiThrows
    <2>3. n # 0
      BY <2>2
    <2>4. PICK v \in seen[t] : n = Len(v)
      BY <2>1, <2>3 DEF Sizes
    <2>5. \E v2 \in seen'[t] : Len(v2) > IntMax
      BY <1>1, <2>2, <2>4
    <2>6. Survives'
      BY <1>2, <2>5 DEF Survives
    <2> QED BY <2>6, DeadData
  <1>4. CASE faults # 0
    <2>1. faults' > 0
      BY <1>0, <1>1, <1>4, BackendAssumption DEF NamesAll, PhaseInv
    <2>2. Survives'
      BY <1>2, <2>1 DEF Survives
    <2> QED BY <2>2, DeadData
  <1> QED BY <1>3, <1>4

(* A mount of a server has nothing in its cache, so only one of a directory*)
(* dies there.                                                             *)
LEMMA CacheDiesData ==
    ASSUME DataAll, NEW t \in Threads, cacheDies(t)
    PROVE  DataAll'
  <1>1. CacheInUse /\ UNCHANGED <<url, copies, req>>
    BY DEF cacheDies, CacheInUse, cache
  <1>2. FileMode
    <2>1. CASE DOMAIN copies # {}
      BY <2>1 DEF DataAll, NamesAll, CopiesInv
    <2>2. ASSUME NEW u \in Threads, Storing(u) PROVE FileMode
      BY <2>2 DEF Storing, DataAll, NamesAll, ReqInv, ReqOK, Idle
    <2> QED BY <1>1, <2>1, <2>2 DEF CacheInUse
  <1>3. FileMode' /\ CacheInUse'
    BY <1>1, <1>2 DEF FileMode, CacheInUse, Storing
  <1>4. Survives'
    BY <1>3 DEF Survives
  <1> QED BY <1>4, DeadData

-----------------------------------------------------------------------------
(* The data through the kernel's requests and the life of the process.     *)

(* A new request has seen what its file is now.                            *)
LEMMA SendData ==
    ASSUME DataAll, NamesAll', NEW t \in Threads, NEW r, Send(t, r), r.st = "sent",
           r.op = "write" => Placed(r.data, r.off)
    PROVE  DataAll'
  <1>0. NamesAll
    BY DEF DataAll
  <1>1. /\ phase = "mounted" /\ ~Active(t) /\ req' = [req EXCEPT ![t] = r] /\ ret' = NoRet
        /\ UNCHANGED <<phase, url, copies, files, net, faults>>
        /\ seen' = [u \in Threads |-> IF u = t THEN Versions(files, r.path)
                                      ELSE IF Active(u) THEN seen[u] ELSE {}]
    BY DEF Send, cache, remote
  <1>2. req'[t] = r /\ \A u \in Threads : u # t => req'[u] = req[u]
    BY <1>0, <1>1 DEF NamesAll, ThreadsInv
  <1>3. /\ seen'[t] = Versions(files, r.path)
        /\ \A u \in Threads : u # t => seen'[u] = IF Active(u) THEN seen[u] ELSE {}
    BY <1>1
  <1>4. PlaceInv'
    <2>1. \A u \in Threads : /\ req'[u].op = "write" => Placed(req'[u].data, req'[u].off)
                             /\ req'[u].st = "store" => Placed(req'[u].out, req'[u].off)
      BY <1>2 DEF DataAll, PlaceInv
    <2> QED BY <1>1, <2>1 DEF DataAll, PlaceInv
  <1>5. SeenInv'
    <2>1. ASSUME NEW u \in Threads, NEW v \in seen'[u] PROVE v \in Seq(Cells)
      <3>1. CASE u = t
        <4>1. v \in Versions(files, r.path)
          BY <1>3, <2>1, <3>1
        <4>2. r.path \in DOMAIN files /\ v = files[r.path]
          BY <4>1 DEF Versions
        <4> QED BY <1>0, <4>2 DEF NamesAll, FilesInv, IsFile
      <3>2. CASE u # t
        <4>1. v \in seen[u]
          BY <1>3, <2>1, <3>2
        <4> QED BY <4>1 DEF DataAll, SeenInv, IsFile
      <3> QED BY <3>1, <3>2
    <2>2. ASSUME NEW u \in Threads, req'[u] # Idle, req'[u].path \in DOMAIN files'
          PROVE  files'[req'[u].path] \in seen'[u]
      <3>1. CASE u = t
        BY <1>1, <1>2, <1>3, <2>2, <3>1 DEF Versions
      <3>2. CASE u # t
        BY <1>1, <1>2, <1>3, <2>2, <3>2 DEF DataAll, SeenInv, Active
      <3> QED BY <3>1, <3>2
    <2> QED BY <2>1, <2>2 DEF SeenInv, Active, IsFile
  <1>6. net[t] = NoTransfer
    BY <1>0, <1>1, IdleThread
  <1>7. NetHolds(net'[t], req'[t], httpMode', seen'[t], faults' = 0)
    BY <1>1, <1>6, NoHolds
  <1>8. NetData' /\ StoreData'
    BY <1>1, <1>2, <1>3, <1>7, OthersData
  <1>9. RetInv'
    <2>1. ret'.req.op = "none"
      BY <1>1 DEF NoRet, Idle
    <2>2. ~Got("read")' /\ ~Got("write")' /\ ~Got("getattr")'
      BY <2>1 DEF Got
    <2> QED BY <1>1, <2>2 DEF RetInv, ReadIsSnapshot, AckedWriteApplied, AttributesAreTrue, NoRet, None, Idle
  <1>10. Survives'
    BY <1>1 DEF Survives
  <1> QED BY <1>4, <1>5, <1>8, <1>9, <1>10 DEF DataAll

(* The requests of the kernel; the cells of a write know their place.      *)
LEMMA KernelData ==
    ASSUME DataAll, NEW t \in Threads, Kernel(t)
    PROVE  DataAll'
  <1>0. NamesAll /\ NamesAll'
    BY KernelNames DEF DataAll
  <1>1. CASE SendName(t)
    <2>1. PICK op \in Ops : \E p \in Targets(op) : Send(t, ReqFor(op, p, 0, 0))
      BY <1>1 DEF SendName
    <2>2. PICK p \in Targets(op) : Send(t, ReqFor(op, p, 0, 0))
      BY <2>1
    <2> DEFINE q == ReqFor(op, p, 0, 0)
    <2>3. q.st = "sent" /\ q.op # "write"
      BY FuseAssumption DEF ReqFor, Idle
    <2> HIDE DEF q
    <2> QED BY <1>0, <2>2, <2>3, SendData DEF q
  <1>2. CASE SendRead(t)
    <2>1. PICK p \in Usable, r \in Ranges : Send(t, ReqFor("read", p, r[1], r[2]))
      BY <1>2 DEF SendRead
    <2> DEFINE q == ReqFor("read", p, r[1], r[2])
    <2>2. q.st = "sent" /\ q.op # "write"
      BY DEF ReqFor, Idle
    <2> HIDE DEF q
    <2> QED BY <1>0, <2>1, <2>2, SendData DEF q
  <1>3. CASE SendWrite(t)
    <2>1. PICK p \in Usable, r \in Ranges :
            Send(t, [ReqFor("write", p, r[1], r[2]) EXCEPT
                      !.data = [i \in 1..r[2] |-> <<writes', r[1] + i>>]])
      BY <1>3 DEF SendWrite
    <2> DEFINE d == [i \in 1..r[2] |-> <<writes', r[1] + i>>]
               q == [ReqFor("write", p, r[1], r[2]) EXCEPT !.data = d]
    <2>2. r[1] \in Nat /\ r[2] \in Nat
      BY FuseAssumption
    <2>3. Len(d) = r[2] /\ \A i \in 1..r[2] : d[i] = <<writes', r[1] + i>>
      BY <2>2
    <2> HIDE DEF d
    <2>4. Placed(d, r[1])
      BY <2>3 DEF Placed
    <2>5. q.st = "sent" /\ q.data = d /\ q.off = r[1]
      BY DEF ReqFor, Idle
    <2>6. Send(t, q)
      BY <2>1 DEF q, d
    <2> HIDE DEF q
    <2> QED BY <1>0, <2>4, <2>5, <2>6, SendData
  <1> QED BY <1>1, <1>2, <1>3 DEF Kernel

(* The start and the end of the process, and a step that changes nothing.  *)
LEMMA MainData ==
    ASSUME DataAll, Main \/ Unmount \/ UNCHANGED vars
    PROVE  DataAll'
  <1>0. NamesAll /\ NamesAll'
    BY MainNames, StutterNames DEF DataAll
  <1>1. /\ UNCHANGED <<copies, files, net, faults, req, ret, seen>>
        /\ phase' # phase => phase' \in {"mounted", "exited"}
        /\ UNCHANGED url \/ phase = "start"
    BY DEF Main, Unmount, fuse_main, cache, remote, vars
  <1>2. Survives'
    <2>1. CASE UNCHANGED <<phase, url>>
      BY <1>1, <2>1 DEF DataAll, Survives, FileMode, CacheInUse, Storing
    <2>2. CASE phase' # "dead"
      BY <2>2 DEF Survives
    <2> QED BY <1>0, <1>1, <2>1, <2>2
  <1>3. SeenInv'
    BY <1>1, SeenSame
  <1>4. CASE UNCHANGED url
    <2>1. PlaceInv'
      BY <1>1, <1>4 DEF DataAll, PlaceInv
    <2>2. RetInv'
      BY <1>1, <1>4, RetGrows
    <2>3. \A u \in Threads : NetHolds(net'[u], req'[u], httpMode', seen'[u], faults' = 0)
      BY <1>1, <1>4, HoldsGrow DEF DataAll, NetData
    <2>4. NetData' /\ StoreData'
      BY <1>1, <2>3 DEF NetData, StoreData, DataAll
    <2> QED BY <1>0, <1>2, <1>3, <2>1, <2>2, <2>4 DEF DataAll
  <1>5. CASE phase = "start"
    <2>1. url = "none" /\ ret = NoRet /\ \A u \in Threads : ~Active(u)
      BY <1>0, <1>5 DEF NamesAll, PhaseInv, Active
    <2>2. PlaceInv'
      BY <1>1, <2>1 DEF DataAll, PlaceInv
    <2>3. \A u \in Threads : net'[u] = NoTransfer /\ req'[u].st # "store"
      BY <1>0, <1>1, <2>1, IdleThread
    <2>4. NetData' /\ StoreData'
      BY <2>3, NoHolds DEF NetData, StoreData
    <2>5. RetInv'
      <3>1. ret' = NoRet /\ ret'.req.op = "none"
        BY <1>1, <2>1 DEF NoRet, Idle
      <3>2. ~Got("read")' /\ ~Got("write")' /\ ~Got("getattr")'
        BY <3>1 DEF Got
      <3> QED BY <3>1, <3>2 DEF RetInv, ReadIsSnapshot, AckedWriteApplied, AttributesAreTrue, NoRet,
        None, Idle
    <2> QED BY <1>0, <1>2, <1>3, <2>2, <2>4, <2>5 DEF DataAll
  <1> QED BY <1>1, <1>4, <1>5

-----------------------------------------------------------------------------
(* The data through the transfers.                                         *)

(* The next n items of the body follow on what the buffer has.             *)
LEMMA SplitOn ==
    ASSUME NEW w, w.buf \in Seq(Item), w.rest \in Seq(Item), w.len \in Nat,
           Len(w.buf) + Len(w.rest) <= w.len, NEW body, Len(body) \in Nat,
           Split(w.buf, w.rest, body), NEW n \in 0..Len(w.rest)
    PROVE  /\ Len(Received(w, n)) = Len(w.buf) + n
           /\ Begins(Received(w, n), body)
           /\ Split(Received(w, n), SubSeq(w.rest, n + 1, Len(w.rest)), body)
  <1> DEFINE b == w.buf
             e == w.rest
             c == Received(w, n)
             d == SubSeq(w.rest, n + 1, Len(w.rest))
  <1>1. /\ Len(b) \in Nat /\ Len(e) \in Nat /\ n \in Nat /\ n <= Len(e) /\ Len(b) + Len(e) = Len(body)
        /\ \A i \in 1..Len(b) : b[i] = body[i]
        /\ \A i \in 1..Len(e) : e[i] = body[Len(b) + i]
    <2>1. b \in Seq(Item) /\ e \in Seq(Item) /\ n \in 0..Len(e) /\ Split(b, e, body)
      OBVIOUS
    <2> HIDE DEF b, e
    <2>2. Len(b) \in Nat /\ Len(e) \in Nat /\ n \in Nat /\ n <= Len(e)
      BY <2>1
    <2> QED BY ONLY <2>1, <2>2 DEF Split
  <1>2. Len(b) + n <= w.len
    <2>1. Len(b) + Len(e) <= w.len /\ w.len \in Nat
      OBVIOUS
    <2> HIDE DEF b, e
    <2> QED BY <1>1, <2>1
  <1>3. /\ Len(c) = Len(b) + n
        /\ \A i \in 1..Len(b) : c[i] = b[i]
        /\ \A i \in 1..n : c[Len(b) + i] = e[i]
    BY <1>2, ReceivedAt
  <1>4. /\ Len(d) = Len(e) - n
        /\ \A i \in 1..(Len(e) - n) : d[i] = e[n + i]
    BY DropAt
  <1> HIDE DEF b, e, c, d
  <1>5. ASSUME NEW i \in 1..Len(c) PROVE c[i] = body[i]
    <2>1. CASE i <= Len(b)
      BY <1>1, <1>3, <2>1
    <2>2. CASE i > Len(b)
      <3>1. i - Len(b) \in 1..n /\ i - Len(b) \in 1..Len(e) /\ Len(b) + (i - Len(b)) = i
        BY <1>1, <1>3, <2>2
      <3> QED BY <1>1, <1>3, <3>1
    <2> QED BY <1>1, <1>3, <2>1, <2>2
  <1>6. ASSUME NEW i \in 1..Len(d) PROVE d[i] = body[Len(c) + i]
    <2>1. /\ n + i \in 1..Len(e) /\ i \in 1..(Len(e) - n) /\ Len(b) + (n + i) = Len(c) + i
      BY <1>1, <1>3, <1>4
    <2> QED BY <1>1, <1>4, <2>1
  <1>7. Len(c) + Len(d) = Len(body) /\ Len(c) <= Len(body)
    BY <1>1, <1>3, <1>4
  <1>8. Begins(c, body) /\ Split(c, d, body)
    BY <1>5, <1>6, <1>7 DEF Begins, Split
  <1> QED BY <1>3, <1>8 DEF b, c, d

(* A step of the network after which the transfer holds what it should.    *)
LEMMA NetworkData ==
    ASSUME DataAll, NamesAll', NEW t \in Threads, NEW r, net' = [net EXCEPT ![t] = r],
           req[t].st = "call", phase = "mounted", Noted, faults' = 0 => faults = 0,
           UNCHANGED <<phase, url, copies, req, ret>>,
           NetHolds(r, req[t], httpMode, seen'[t], faults' = 0)
    PROVE  DataAll'
  <1>0. NamesAll
    BY DEF DataAll
  <1>1. /\ net'[t] = r /\ \A u \in Threads : u # t => net'[u] = net[u]
    BY <1>0 DEF NamesAll, ThreadsInv
  <1>2. url \notin {"none", "file/", "file"}
    <2>1. ~FileMode /\ url \in Urls
      BY <1>0, Working DEF NamesAll, PhaseInv
    <2> QED BY <2>1, FuseAssumption DEF FileMode
  <1>3. PlaceInv'
    BY <1>2 DEF DataAll, PlaceInv
  <1>4. SeenInv' /\ \A u \in Threads : seen[u] \subseteq seen'[u]
    BY NotedSeen
  <1>5. httpMode' <=> httpMode
    BY DEF httpMode
  <1>6. NetHolds(net'[t], req'[t], httpMode', seen'[t], faults' = 0)
    BY <1>1, <1>5 DEF NetHolds
  <1>7. req'[t].st # "store"
    OBVIOUS
  <1>8. NetData' /\ StoreData'
    BY <1>1, <1>4, <1>6, <1>7, OthersData
  <1>9. RetInv'
    BY <1>4, RetGrows
  <1>10. Survives'
    BY DEF Survives
  <1> QED BY <1>3, <1>4, <1>8, <1>9, <1>10 DEF DataAll

(* A transfer that failed holds nothing.                                   *)
LEMMA LostHolds ==
    ASSUME NEW t \in Threads, NEW r \in DoneRec, ~r.cres
    PROVE  NetHolds(r, req[t], httpMode, seen'[t], faults' = 0)
  <1>1. r.st = "done"
    BY DEF DoneRec
  <1> QED BY <1>1 DEF NetHolds

(* The whole of an answer is still to come.                                *)
LEMMA SplitAll ==
    ASSUME NEW body \in Seq(Item)
    PROVE  Split(<<>>, body, body) /\ Len(<<>>) = 0
  BY DEF Split

(* The body of the server's answer is right for what the file is now.      *)
LEMMA ServeGetData ==
    ASSUME DataAll, NamesAll', NEW t \in Threads, ServeGet(t), Noted, phase = "mounted",
           UNCHANGED <<phase, url, copies, req, ret>>
    PROVE  DataAll'
  <1> DEFINE p == req[t].path
             w == net[t]
  <1>0. NamesAll
    BY DEF DataAll
  <1>1. /\ req[t] \in ReqRec /\ req[t].st = "call" /\ w \in SentRec /\ SentFor(w, req[t], httpMode)
        /\ req[t] # Idle
    BY <1>0, OnTheWire DEF ServeGet, Idle
  <1>2. UNCHANGED <<files, faults>>
    BY DEF ServeGet
  <1>3. p \in DOMAIN files => files[p] \in seen'[t]
    BY <1>1, <1>2, NotedSeen DEF Active
  <1>4. PICK r \in BodyRec \cup DoneRec :
             /\ net' = [net EXCEPT ![t] = r]
             /\ \/ r \in DoneRec /\ ~r.cres
                \/ /\ r \in BodyRec /\ r.buf = <<>> /\ r.len = w.len
                   /\ \/ /\ w.endpoint = "info" /\ p \in Dirs \cup DOMAIN files
                         /\ r.rest = get_file_info(files, p)
                      \/ /\ w.endpoint = "data" /\ p \in DOMAIN files /\ r.sized
                         /\ w.len > 0 => r.rest = pread(files[p], w.len, w.off)
    BY <1>0, ServeGetCases
  <1>5. CASE r \in DoneRec /\ ~r.cres
    <2>1. NetHolds(r, req[t], httpMode, seen'[t], faults' = 0)
      BY <1>5, LostHolds
    <2> QED BY <1>1, <1>2, <1>4, <2>1, NetworkData
  <1>6. CASE /\ r \in BodyRec /\ r.buf = <<>> /\ r.len = w.len
             /\ \/ /\ w.endpoint = "info" /\ p \in Dirs \cup DOMAIN files
                   /\ r.rest = get_file_info(files, p)
                \/ /\ w.endpoint = "data" /\ p \in DOMAIN files /\ r.sized
                   /\ w.len > 0 => r.rest = pread(files[p], w.len, w.off)
    <2>1. r.st = "body" /\ r.rest \in Seq(Item)
      BY <1>6 DEF BodyRec
    <2>2. Split(r.buf, r.rest, r.rest) /\ Len(r.buf) + Len(r.rest) = Len(r.rest)
      <3>1. Split(<<>>, r.rest, r.rest) /\ Len(<<>>) = 0 /\ Len(r.rest) \in Nat
        BY <2>1, SplitAll
      <3> QED BY <1>6, <3>1
    <2>3. CASE req[t].op = "read"
      <3>1. w.len = req[t].len /\ w.off = req[t].off /\ w.endpoint # "info" /\ w.len > 0
            /\ w.len \in Nat /\ w.off \in Nat
        BY <1>0, <1>1, <2>3, Working DEF SentFor, SentRec
      <3>2. p \in DOMAIN files /\ r.sized /\ r.rest = pread(files[p], req[t].len, req[t].off)
        BY <1>6, <3>1
      <3>3. r.rest \in Bodies(req[t], seen'[t])
        BY <1>3, <2>3, <3>2 DEF Bodies
      <3>4. Len(r.rest) <= w.len
        <4>1. files[p] \in Seq(Cells)
          BY <1>0, <3>2 DEF NamesAll, FilesInv, IsFile
        <4>2. Len(pread(files[p], w.len, w.off)) <= w.len
          BY <3>1, <4>1, PreadAt
        <4> QED BY <3>1, <3>2, <4>2
      <3>5. NetHolds(r, req[t], httpMode, seen'[t], faults' = 0)
        BY <1>6, <2>1, <2>2, <2>3, <3>2, <3>3, <3>4 DEF NetHolds
      <3> QED BY <1>1, <1>2, <1>4, <3>5, NetworkData
    <2>4. CASE req[t].op # "read" /\ httpMode
      <3>1. req[t].op = "getattr" /\ w.len = 5 /\ w.endpoint # "data"
        BY <1>0, <1>1, <2>4, OnTheWire DEF SentFor, ServeGet, InfoCap
      <3>2. p \in Dirs \cup DOMAIN files /\ r.rest = get_file_info(files, p)
        BY <1>6, <3>1
      <3> DEFINE n == IF p \in Dirs THEN 0 ELSE Len(files[p])
      <3>3. Len(r.rest) = 5 /\ r.rest = Description(p \in Dirs, n)
        BY <1>0, <3>2, InfoItems
      <3>4. n \in Sizes(req[t], seen'[t])
        BY <1>3, <3>2 DEF Sizes
      <3> HIDE DEF n
      <3>5. r.rest \in Bodies(req[t], seen'[t])
        BY <2>4, <3>3, <3>4 DEF Bodies
      <3>6. NetHolds(r, req[t], httpMode, seen'[t], faults' = 0)
        BY <1>6, <2>1, <2>2, <3>1, <3>3, <3>5 DEF NetHolds
      <3> QED BY <1>1, <1>2, <1>4, <3>6, NetworkData
    <2>5. CASE req[t].op # "read" /\ ~httpMode
      <3>1. NetHolds(r, req[t], httpMode, seen'[t], faults' = 0)
        BY <2>1, <2>5 DEF NetHolds
      <3> QED BY <1>1, <1>2, <1>4, <3>1, NetworkData
    <2> QED BY <2>3, <2>4, <2>5
  <1> QED BY <1>4, <1>5, <1>6

(* An upload that is acknowledged is the content of the file now.          *)
LEMMA ServePutData ==
    ASSUME DataAll, NamesAll', NEW t \in Threads, ServePut(t), Noted, phase = "mounted",
           UNCHANGED <<phase, url, copies, req, ret>>
    PROVE  DataAll'
  <1> DEFINE p == req[t].path
  <1>0. NamesAll
    BY DEF DataAll
  <1>1. req[t].op = "write" /\ p \in DOMAIN files
    BY <1>0, ServePutCases
  <1>2. PICK r \in DoneRec :
                /\ net' = [net EXCEPT ![t] = r] /\ r.len = req[t].len
                /\ \/ files' = files /\ ~r.cres
                   \/ files' = Stored(files, p, req[t].data)
    BY <1>0, ServePutCases
  <1>3. req[t].st = "call" /\ Active(t) /\ faults' = faults
    BY <1>0, OnTheWire DEF ServePut, Active, Idle
  <1>4. CASE ~r.cres
    <2>1. NetHolds(r, req[t], httpMode, seen'[t], faults' = 0)
      BY <1>4, LostHolds
    <2> QED BY <1>2, <1>3, <2>1, NetworkData
  <1>5. CASE files' = Stored(files, p, req[t].data)
    <2>1. p \in DOMAIN files' /\ files'[p] = req[t].data
      BY <1>5 DEF Stored
    <2>2. req[t].data \in seen'[t]
      BY <1>3, <2>1, NotedSeen
    <2>3. r.st = "done"
      BY DEF DoneRec
    <2>4. NetHolds(r, req[t], httpMode, seen'[t], faults' = 0)
      BY <1>1, <1>2, <2>2, <2>3 DEF NetHolds
    <2> QED BY <1>2, <1>3, <2>4, NetworkData
  <1> QED BY <1>2, <1>4, <1>5

(* A body under way: the answer it belongs to, still right.                *)
LEMMA BodyUnderWay ==
    ASSUME DataAll, NEW t \in Threads, net[t].st = "body", req[t].op = "read" \/ httpMode,
           seen[t] \subseteq seen'[t]
    PROVE  /\ Len(net[t].buf) + Len(net[t].rest) <= net[t].len
           /\ req[t].op = "read" => net[t].sized
           /\ \E body \in Bodies(req[t], seen'[t]) :
                Split(net[t].buf, net[t].rest, body) /\ body \in Seq(Item)
  <1>0. NamesAll /\ NetHolds(net[t], req[t], httpMode, seen[t], faults = 0)
    BY DEF DataAll, NetData
  <1>1. /\ Len(net[t].buf) + Len(net[t].rest) <= net[t].len
        /\ req[t].op = "read" => net[t].sized
        /\ \E body \in Bodies(req[t], seen[t]) : Split(net[t].buf, net[t].rest, body)
    BY <1>0 DEF NetHolds
  <1>2. PICK body \in Bodies(req[t], seen[t]) : Split(net[t].buf, net[t].rest, body)
    BY <1>1
  <1>3. body \in Bodies(req[t], seen'[t])
    BY BodiesGrow
  <1>4. \A v \in seen[t] : v \in Seq(Cells)
    BY DEF DataAll, SeenInv, IsFile
  <1>5. req[t] \in ReqRec
    BY <1>0, OnTheWire
  <1>6. body \in Seq(Item)
    <2>1. CASE req[t].op = "read"
      <3>1. PICK v \in seen[t] : body = pread(v, req[t].len, req[t].off)
        BY <1>2, <2>1 DEF Bodies
      <3>2. v \in Seq(Cells) /\ req[t].len \in Nat /\ req[t].off \in Nat
        BY <1>4, <1>5 DEF ReqRec
      <3>3. body \in Seq(Cells)
        BY <3>1, <3>2, PreadSeq
      <3> QED BY <3>3 DEF Item
    <2>2. CASE req[t].op # "read"
      <3> DEFINE d == req[t].path \in Dirs
      <3>1. PICK n \in Sizes(req[t], seen[t]) : body = Description(d, n)
        BY <1>2, <2>2 DEF Bodies
      <3>2. n \in Nat
        BY <1>4 DEF Sizes
      <3>3. d \in BOOLEAN
        OBVIOUS
      <3> HIDE DEF d
      <3>4. "name" \in Item /\ "size" \in Item /\ n \in Item /\ "is_directory" \in Item /\ d \in Item
        BY <3>2, <3>3 DEF Item
      <3> QED BY <3>1, <3>4 DEF Description
    <2> QED BY <2>1, <2>2
  <1> QED BY <1>1, <1>2, <1>3, <1>6

(* The body arrives in pieces, in order and to the end.                    *)
LEMMA ReceiveData ==
    ASSUME DataAll, NamesAll', NEW t \in Threads, Receive(t) \/ Complete(t), Noted, phase = "mounted",
           UNCHANGED <<phase, url, copies, req, ret>>
    PROVE  DataAll'
  <1> DEFINE w == net[t]
             q == req[t]
  <1>0. NamesAll /\ net = [u \in Threads |-> net[u]]
    BY DEF DataAll, NamesAll, ThreadsInv
  <1>1. w.st = "body" /\ faults' = faults
    BY DEF Receive, Complete
  <1>2. /\ q.st = "call" /\ q.op # "write" /\ w \in BodyRec
    BY <1>0, <1>1, OnTheWire
  <1>3. /\ w.buf \in Seq(Item) /\ w.rest \in Seq(Item) /\ w.len \in Nat /\ w.code \in Nat
        /\ Len(w.rest) \in Nat
    BY <1>2 DEF BodyRec
  <1>4. seen[t] \subseteq seen'[t]
    BY NotedSeen
  <1>5. ASSUME q.op = "read" \/ httpMode
        PROVE  /\ Len(w.buf) + Len(w.rest) <= w.len /\ (q.op = "read" => w.sized)
               /\ \E body \in Bodies(q, seen'[t]) : Split(w.buf, w.rest, body) /\ body \in Seq(Item)
    BY <1>1, <1>4, <1>5, BodyUnderWay
  <1>6. CASE Receive(t)
    <2> DEFINE b == Received(w, ChunkSize)
               e == SubSeq(w.rest, ChunkSize + 1, Len(w.rest))
               r == [w EXCEPT !.buf = b, !.rest = e]
    <2>1. net' = [net EXCEPT ![t] = r] /\ Len(w.rest) > ChunkSize
      BY <1>0, <1>6 DEF Receive
    <2>2. r.st = "body" /\ r.len = w.len /\ r.sized = w.sized /\ r.buf = b /\ r.rest = e
      BY <1>1, <1>2 DEF BodyRec
    <2>3. ChunkSize \in 0..Len(w.rest)
      BY <1>3, <2>1, BackendAssumption
    <2>4. ASSUME q.op = "read" \/ httpMode
          PROVE  /\ Len(b) + Len(e) <= w.len /\ (q.op = "read" => w.sized)
                 /\ \E body \in Bodies(q, seen'[t]) : Split(b, e, body)
      <3>1. Len(w.buf) + Len(w.rest) <= w.len /\ (q.op = "read" => w.sized)
        BY <1>5, <2>4
      <3>2. PICK body \in Bodies(q, seen'[t]) : Split(w.buf, w.rest, body) /\ body \in Seq(Item)
        BY <1>5, <2>4
      <3>3. Len(body) \in Nat
        BY <3>2
      <3> HIDE DEF w, q
      <3>4. Split(b, e, body)
        BY <1>3, <2>3, <3>1, <3>2, <3>3, SplitOn
      <3>5. Len(b) + Len(e) = Len(w.buf) + Len(w.rest)
        <4> HIDE DEF b, e
        <4> QED BY <3>2, <3>4 DEF Split
      <3> QED BY <3>1, <3>2, <3>4, <3>5
    <2> HIDE DEF r, b, e
    <2>5. NetHolds(r, q, httpMode, seen'[t], faults' = 0)
      BY <2>2, <2>4 DEF NetHolds
    <2> QED BY <1>1, <1>2, <2>1, <2>5, NetworkData
  <1>7. CASE Complete(t)
    <2> DEFINE b == Received(w, Len(w.rest))
               r == Done(w, w.code, TRUE, b)
    <2>1. net' = [net EXCEPT ![t] = r]
      BY <1>0, <1>7 DEF Complete
    <2>2. r.st = "done" /\ r.buf = b
      BY DEF Done
    <2>3. ASSUME q.op = "read" \/ httpMode PROVE b \in Bodies(q, seen'[t])
      <3>1. Len(w.buf) + Len(w.rest) <= w.len
        BY <1>5, <2>3
      <3>2. PICK body \in Bodies(q, seen'[t]) : Split(w.buf, w.rest, body) /\ body \in Seq(Item)
        BY <1>5, <2>3
      <3>3. Len(body) \in Nat /\ Len(w.rest) \in 0..Len(w.rest)
        BY <1>3, <3>2
      <3> HIDE DEF w, q
      <3>4. b \in Seq(Item)
        BY <1>3, <3>3, ReceivedAt
      <3>5. Len(b) = Len(w.buf) + Len(w.rest) /\ Begins(b, body)
        BY <1>3, <3>1, <3>2, <3>3, SplitOn
      <3> HIDE DEF b
      <3>6. Len(b) = Len(body) /\ \A i \in 1..Len(b) : b[i] = body[i]
        BY <3>2, <3>5 DEF Split, Begins
      <3>7. b = body
        BY <3>2, <3>4, <3>6, SeqEqual
      <3> QED BY <3>2, <3>7
    <2> HIDE DEF r, b
    <2>4. Len(b) <= Len(b) /\ Begins(b, b)
      <3>1. b \in Seq(Item)
        <4>1. Len(w.rest) \in 0..Len(w.rest)
          BY <1>3
        <4> HIDE DEF w
        <4> QED BY <1>3, <4>1, ReceivedAt DEF b
      <3> QED BY <3>1 DEF Begins
    <2>5. NetHolds(r, q, httpMode, seen'[t], faults' = 0)
      BY <1>2, <2>2, <2>3, <2>4 DEF NetHolds
    <2> QED BY <1>1, <1>2, <2>1, <2>5, NetworkData
  <1> QED BY <1>6, <1>7

(* The steps of a transfer.                                                *)
LEMMA TransferData ==
    ASSUME DataAll, NEW t \in Threads, Network(t)
    PROVE  DataAll'
  <1>1. /\ phase = "mounted" /\ Noted /\ Transfer(t)
        /\ UNCHANGED <<phase, url, copies, req, ret>>
    BY DEF Network, cache
  <1>2. NamesAll'
    BY TransferNames DEF DataAll
  <1> QED BY <1>1, <1>2, ServeGetData, ServePutData, ReceiveData DEF Transfer

(* A connection that is lost is no success; only a description that has no *)
(* length may be cut short unnoticed.                                      *)
LEMMA FailingData ==
    ASSUME DataAll, NEW t \in Threads, Failing(t)
    PROVE  DataAll'
  <1> DEFINE w == net[t]
             q == req[t]
  <1>0. NamesAll /\ NamesAll'
    BY FailingNames DEF DataAll
  <1>1. /\ phase = "mounted" /\ Noted /\ Lose(t)
        /\ UNCHANGED <<phase, url, copies, req, ret>>
    BY DEF Failing, cache
  <1>2. /\ q.st = "call" /\ faults' = faults + 1
    BY <1>0, <1>1, LoseCases
  <1>3. faults' # 0
    BY <1>0, <1>2, BackendAssumption DEF NamesAll, PhaseInv
  <1>4. PICK r \in DoneRec :
                /\ net' = [net EXCEPT ![t] = r]
                /\ \/ ~r.cres
                   \/ /\ w.st = "body" /\ ~w.sized /\ q.op # "write"
                      /\ \E n \in 0..Len(w.rest) : r.buf = Received(w, n)
    BY <1>0, <1>1, LoseCases
  <1>5. CASE ~r.cres
    <2>1. NetHolds(r, q, httpMode, seen'[t], faults' = 0)
      BY <1>5, LostHolds
    <2> QED BY <1>0, <1>1, <1>2, <1>3, <1>4, <2>1, NetworkData
  <1>6. CASE /\ w.st = "body" /\ ~w.sized /\ q.op # "write"
             /\ \E n \in 0..Len(w.rest) : r.buf = Received(w, n)
    <2>1. w \in BodyRec
      BY <1>0, <1>6, OnTheWire
    <2>2. w.buf \in Seq(Item) /\ w.rest \in Seq(Item) /\ w.len \in Nat /\ r.st = "done"
      BY <2>1 DEF BodyRec, DoneRec
    <2>3. seen[t] \subseteq seen'[t]
      BY <1>0, <1>1, NotedSeen
    <2>4. q.op # "read"
      BY <1>6, <2>3, BodyUnderWay
    <2>5. ASSUME httpMode PROVE \E body \in Bodies(q, seen'[t]) : Begins(r.buf, body)
      <3>1. Len(w.buf) + Len(w.rest) <= w.len
        BY <1>6, <2>3, <2>5, BodyUnderWay
      <3>2. PICK body \in Bodies(q, seen'[t]) : Split(w.buf, w.rest, body) /\ body \in Seq(Item)
        BY <1>6, <2>3, <2>5, BodyUnderWay
      <3>3. Len(body) \in Nat
        BY <3>2
      <3>4. PICK n \in 0..Len(w.rest) : r.buf = Received(w, n)
        BY <1>6
      <3> HIDE DEF w, q
      <3>5. Begins(Received(w, n), body)
        BY <2>2, <3>1, <3>2, <3>3, SplitOn
      <3> QED BY <3>2, <3>4, <3>5
    <2>6. NetHolds(r, q, httpMode, seen'[t], faults' = 0)
      BY <1>3, <1>6, <2>2, <2>4, <2>5 DEF NetHolds
    <2> QED BY <1>0, <1>1, <1>2, <1>3, <1>4, <2>6, NetworkData
  <1> QED BY <1>4, <1>5, <1>6

-----------------------------------------------------------------------------
(* The theorems about the data.                                            *)

(* The files at the start have their cells in place, and nothing is asked. *)
LEMMA InitData == Init => DataAll
  <1> SUFFICES ASSUME Init PROVE DataAll
    OBVIOUS
  <1>1. \A t \in Threads : /\ req[t].op = "none" /\ req[t].st = "idle" /\ ~Active(t)
                           /\ net[t].st = "none" /\ seen[t] = {}
    BY DEF Init, Idle, NoTransfer, Active
  <1>2. PlaceInv
    <2>1. \A p \in DOMAIN files : Placed(files[p], 0)
      <3>1. ASSUME NEW p \in DOMAIN files, NEW i \in 1..Len(files[p])
            PROVE  files[p][i] = Zero \/ files[p][i][2] = 0 + i
        BY <3>1, InitFilesAssumption DEF Init
      <3> QED BY <3>1 DEF Placed
    <2>2. DOMAIN copies = {}
      BY DEF Init
    <2> QED BY <1>1, <2>1, <2>2 DEF PlaceInv
  <1>3. SeenInv
    BY <1>1 DEF SeenInv
  <1>4. NetData /\ StoreData
    BY <1>1 DEF NetData, NetHolds, StoreData
  <1>5. RetInv
    <2>1. ret = NoRet /\ ret.req.op = "none"
      BY DEF Init, NoRet, Idle
    <2>2. ~Got("read") /\ ~Got("write") /\ ~Got("getattr")
      BY <2>1 DEF Got
    <2> QED BY <2>1, <2>2 DEF RetInv, ReadIsSnapshot, AckedWriteApplied, AttributesAreTrue
  <1>6. Survives
    BY DEF Init, Survives
  <1> QED BY <1>2, <1>3, <1>4, <1>5, <1>6, InitNames DEF DataAll

(* Every step keeps the data invariant.                                    *)
LEMMA NextData == DataAll /\ [Next]_vars => DataAll'
  <1> SUFFICES ASSUME DataAll, [Next]_vars PROVE DataAll'
    OBVIOUS
  <1>1. CASE Main \/ Unmount \/ UNCHANGED vars
    BY <1>1, MainData
  <1>2. CASE \E t \in Threads : Kernel(t)
    BY <1>2, KernelData
  <1>3. ASSUME NEW t \in Threads, Handler(t) PROVE DataAll'
    BY <1>3, DispatchData, AttributeFileData, ReadFileData, StoreFileData, WriteFileData, CallData,
       AttributeReturnData, TransferReturnData, ThrowsData, CacheDiesData DEF Handler
  <1>4. CASE \E t \in Threads : Network(t)
    BY <1>4, TransferData
  <1>5. CASE \E t \in Threads : Failing(t)
    BY <1>5, FailingData
  <1> QED BY <1>1, <1>2, <1>3, <1>4, <1>5 DEF Next

(* A read that succeeds returns a range of one content that the file had   *)
(* while the read ran, for any transfer size, any number of threads and of *)
(* lost connections.                                                       *)
THEOREM ReadsAreSnapshots == Spec => []ReadIsSnapshot
  <1>1. DataAll => ReadIsSnapshot
    BY DEF DataAll, RetInv
  <1> QED BY <1>1, InitData, NextData, PTL DEF Spec

(* A write that is answered with its length is whole in the remote file    *)
(* before it is answered.                                                  *)
THEOREM AckedWritesAreApplied == Spec => []AckedWriteApplied
  <1>1. DataAll => AckedWriteApplied
    BY DEF DataAll, RetInv
  <1> QED BY <1>1, InitData, NextData, PTL DEF Spec

(* While no connection is lost, a lookup tells a directory from a file and *)
(* the size is one that the file had meanwhile.                            *)
THEOREM LookupsAreTrue == Spec => []AttributesAreTrue
  <1>1. DataAll => AttributesAreTrue
    BY DEF DataAll, RetInv
  <1> QED BY <1>1, InitData, NextData, PTL DEF Spec

(* The cache's copies have every cell at its own offset, in whatever order *)
(* readers store what they read.                                           *)
THEOREM CopiesAreInPlace == Spec => []CopyIsInPlace
  <1>1. DataAll => CopyIsInPlace
    <2> SUFFICES ASSUME DataAll, NEW p \in DOMAIN copies, NEW i \in DOMAIN copies[p]
                 PROVE  copies[p][i] = Zero \/ copies[p][i][2] = i
      BY DEF CopyIsInPlace
    <2>1. copies[p] \in Seq(Cells) /\ Placed(copies[p], 0)
      BY DEF DataAll, NamesAll, CopiesInv, IsFile, PlaceInv
    <2>2. i \in 1..Len(copies[p]) /\ 0 + i = i
      BY <2>1
    <2> QED BY <2>1, <2>2 DEF Placed
  <1> QED BY <1>1, InitData, NextData, PTL DEF Spec

(* A mount of a server dies of no exception, unless a connection was lost  *)
(* or a file was larger than an int, and never in the cache; a mount of a  *)
(* directory dies only once a read has begun to store what it got.         *)
THEOREM ProcessSurvives == Spec => []Survives
  <1>1. DataAll => Survives
    BY DEF DataAll
  <1> QED BY <1>1, InitData, NextData, PTL DEF Spec
=============================================================================
