------------------------------- MODULE FuseFs -------------------------------
(***************************************************************************)
(* fuse/fuse.cc: the program remote_cache.  main() starts the cache and    *)
(* the backends and mounts; then the kernel's requests are dispatched to   *)
(* the handlers by several threads at once.  The kernel and libfuse are    *)
(* external; what they send follows from what they were answered before.   *)
(*                                                                         *)
(* Data.  The n-th write request carries the cells <<n, c>> at offset c.   *)
(* The cache is the plain copy that cache_store_file keeps (module         *)
(* CacheManager has all of it); the other side of a "file://" URL is a     *)
(* local directory, of "http://" the local server.                         *)
(***************************************************************************)
EXTENDS HttpBackend, Libfuse

CONSTANTS
    Names,          \* paths below the mount point, directories included
    Urls,           \* the URL arguments main() is started with
    InitFiles,      \* the remote files at the start, any of these
    Ops,            \* the kinds of requests the kernel sends, but for read and write
    Ranges,         \* <<offset, length>> of the reads and writes
    IntMax,         \* largest size std::stoi can convert
    MaxWrites,      \* bound: write requests
    MaxRequests     \* bound: requests

ASSUME FuseAssumption ==
    /\ Urls \subseteq {"file/", "file", "http/api/data", "http", "other"}
    /\ Dirs \subseteq Names /\ IntMax \in Nat /\ MaxWrites \in Nat /\ MaxRequests \in Nat
    /\ Ops \subseteq fuse_operations \ {"read", "write"}
    /\ Ranges \subseteq Nat \X (Nat \ {0})

\* Cells of files: <<write request, offset>>, or Zero in a hole.
Cells == (Nat \X Nat) \cup {Zero}
IsFile(f) == f \in Seq(Cells)

\* The files that are there at the start have their own cells in place.
ASSUME InitFilesAssumption ==
    \A fs \in InitFiles :
        /\ DOMAIN fs \subseteq Names \ Dirs
        /\ \A p \in DOMAIN fs :
             IsFile(fs[p]) /\ \A i \in 1..Len(fs[p]) : fs[p][i] = Zero \/ fs[p][i][2] = i

VARIABLES
    phase,          \* of the process: "start", "mounted", "exited" or "dead"
    url,            \* argv[2]: decides fileRemoteDirectory and httpMode
    cacheDirectory, \* "own", or "sibling" after realCachePath changed its name
    sibling,        \* the names in the directory it then is, None if there is none
    copies,         \* the plain copies in the cache
    evicted,        \* the paths whose cache entry is marked evicted
    known, absent,  \* kernel: the names last looked up with success, with ENOENT
    opened,         \* kernel: the open files
    req,            \* each thread's request
    ret,            \* the last answer, until the next request
    seen,           \* history: contents the file had while a request ran
    writes, requests    \* history: write requests and requests so far

cache == <<copies, evicted>>
dirs == <<cacheDirectory, sibling>>
kernel == <<known, absent, opened>>
remote == <<files, net, faults>>
counts == <<writes, requests>>
vars == <<phase, url, dirs, cache, kernel, remote, req, ret, seen, counts>>

None == {"no such directory"}
NoRet == [req |-> Idle, by |-> None, res |-> 0, out |-> <<>>]

Init ==
    /\ phase = "start" /\ url = "none"
    /\ files \in InitFiles
    /\ cacheDirectory = "own" /\ sibling \in {None, Names}
    /\ copies = <<>> /\ evicted = {}
    /\ known = {} /\ absent = {} /\ opened = {}
    /\ net = [t \in Threads |-> NoTransfer] /\ faults = 0
    /\ req = [t \in Threads |-> Idle] /\ ret = NoRet
    /\ seen = [t \in Threads |-> {}] /\ writes = 0 /\ requests = 0

\* fuse_main() mounts, or returns one of its error codes.
fuse_main == phase' \in {"mounted", "exited"}

\* main(): the cache directory is found or made, the cache is initialised and
\* the URL chooses the mode; create_backend() does not fail.
Main ==
    /\ phase = "start"
    /\ \/ phase' = "exited" /\ UNCHANGED url
       \/ url' \in Urls /\ fuse_main
    /\ UNCHANGED <<dirs, cache, kernel, remote, req, ret, seen, counts>>

FileMode == url \in {"file/", "file"}
httpMode == url \in {"http/api/data", "http"}

\* A URL without /api/data is used as it is for both backends.
Endpoint(name) == IF url = "http" THEN Nowhere ELSE name

-----------------------------------------------------------------------------
(* Paths.                                                                  *)

\* path == "/" compares two pointers: libfuse builds the path it passes.
IsRootLiteral(p) == FALSE

\* realFilePath replaces the last character of a directory that does not end
\* in a slash, and so looks in another one, where nothing is found.
realFilePath(p) == url = "file/"
isFile(p) == realFilePath(p) /\ p \in DOMAIN files
isDir(p) == realFilePath(p) /\ p \in Dirs

\* realCachePath does the same to the cache's directory, whose path never ends
\* in a slash.
realCachePath(dir) == "sibling"

-----------------------------------------------------------------------------
(* The kernel and libfuse: which request can follow which answers.         *)

Active(t) == req[t] # Idle
Running(ops, p) == \E t \in Threads : Active(t) /\ req[t].op \in ops /\ req[t].path = p
Versions(fs, p) == IF p \in DOMAIN fs THEN {fs[p]} ELSE {}

\* A file can be read and written from its open to its release, which comes
\* after all of its reads and writes.
Usable == {p \in opened : ~Running({"release"}, p)}

\* A name is looked up first; only one that does not exist is created.
Targets(op) ==
    CASE op = "getattr" -> Names
      [] op \in Creating -> absent
      [] op \in OnDirectory -> known \cap Dirs
      [] op \in OnOpenFile -> Usable
      [] op = "release" -> {p \in Usable : ~Running({"read", "write"}, p)}
      [] op = "statfs" -> {"/"}
      [] OTHER -> known \ Dirs

Send(t, r) ==
    /\ phase = "mounted" /\ ~Active(t)
    /\ requests < MaxRequests /\ requests' = requests + 1
    /\ req' = [req EXCEPT ![t] = r] /\ ret' = NoRet
    /\ seen' = [u \in Threads |-> IF u = t THEN Versions(files, r.path)
                                  ELSE IF Active(u) THEN seen[u] ELSE {}]
    /\ UNCHANGED <<phase, url, dirs, cache, kernel, remote>>

SendName(t) ==
    /\ \E op \in Ops : \E p \in Targets(op) : Send(t, ReqFor(op, p, 0, 0))
    /\ UNCHANGED writes

SendRead(t) ==
    /\ \E p \in Usable, r \in Ranges :
          Send(t, ReqFor("read", p, r[1], r[2]))
    /\ UNCHANGED writes

SendWrite(t) ==
    /\ writes < MaxWrites /\ writes' = writes + 1
    /\ \E p \in Usable, r \in Ranges :
          Send(t, [ReqFor("write", p, r[1], r[2]) EXCEPT
                    !.data = [i \in 1..r[2] |-> <<writes', r[1] + i>>]])

\* The answer, and what the kernel concludes from it.
Answer(t, res, out) ==
    LET op == req[t].op
        p == req[t].path
    IN  /\ req' = [req EXCEPT ![t] = Idle]
        /\ ret' = [req |-> req[t], by |-> t, res |-> res, out |-> out]
        /\ known' = KnownAfter(known, op, p, res)
        /\ absent' = AbsentAfter(absent, op, p, res)
        /\ opened' = OpenedAfter(opened, op, p, res)

Handles(t, ops) == phase = "mounted" /\ req[t].st = "sent" /\ req[t].op \in ops

-----------------------------------------------------------------------------
(* The handlers that answer at once.                                       *)

\* Every handler answers every failure with -1, which the kernel takes for
\* -EPERM.
Error == -1

operations ==
    {"getattr", "mkdir", "unlink", "rmdir", "open", "read", "write", "statfs", "release",
     "readdir", "create"}

openFile == 0
createFile == 0
getStats == IF cacheDirectory = "own" \/ sibling # None THEN 0 ELSE Error

\* Listing the remote and the cache directory is never reached.
readDirectory(p) == IF ~IsRootLiteral(p) THEN Error ELSE 0

\* The requests without a handler, and those whose handler changes nothing.
Dispatch(t) ==
    /\ Handles(t, fuse_operations \ {"getattr", "mkdir", "rmdir", "unlink", "read", "write",
                                     "release"})
    /\ LET op == req[t].op
       IN  Answer(t, fuse_fs(operations, op,
                             CASE op = "create" -> createFile
                               [] op = "statfs" -> getStats
                               [] op = "readdir" -> readDirectory(req[t].path)
                               [] OTHER -> openFile), <<>>)
    /\ UNCHANGED <<phase, url, dirs, cache, remote, seen, counts>>

\* The names in the sibling directory after mkdir, rmdir and unlink.
makeDirectory(p) == IF sibling = None THEN None ELSE sibling \cup {p}
removeDirectory(p) == sibling \ {p}
removeFile(p) == sibling \ {p}

DispatchName(t) ==
    /\ Handles(t, {"mkdir", "rmdir", "unlink"})
    /\ LET p == req[t].path
           after == CASE req[t].op = "mkdir" -> makeDirectory(p)
                      [] req[t].op = "rmdir" -> removeDirectory(p)
                      [] req[t].op = "unlink" -> removeFile(p)
       IN  /\ cacheDirectory' = realCachePath(cacheDirectory)
           /\ sibling' = after
           /\ Answer(t, IF after = sibling THEN Error ELSE 0, <<>>)
    /\ ~(req[t].op = "unlink" /\ req[t].path \in opened)
    /\ UNCHANGED <<phase, url, cache, remote, seen, counts>>

\* An open file is to be renamed first; libfuse finds no free name for it,
\* because the lookup of a name that is not there does not fail with ENOENT.
HideOpen(t) ==
    /\ Handles(t, {"unlink"}) /\ req[t].path \in opened
    /\ Answer(t, EBUSY, <<>>)
    /\ UNCHANGED <<phase, url, dirs, cache, remote, seen, counts>>

\* cache_apply_eviction may mark any entries: see EvictMark of CacheManager.
releaseFiles(t) ==
    /\ Handles(t, {"release"})
    /\ \E gone \in SUBSET DOMAIN copies : evicted' = evicted \cup gone
    /\ Answer(t, 0, <<>>)
    /\ UNCHANGED <<phase, url, dirs, copies, remote, seen, counts>>

-----------------------------------------------------------------------------
(* file://: the handlers work on the remote directory.                     *)

\* The requests that run see the new content of the file.
Noted ==
    seen' = [t \in Threads |-> IF Active(t) THEN seen[t] \cup Versions(files', req[t].path)
                               ELSE seen[t]]

Attributes(dir, size) == [dir |-> dir, size |-> size]

getAttributeFile(t) ==
    /\ FileMode /\ Handles(t, {"getattr"})
    /\ LET p == req[t].path
       IN  CASE isFile(p) -> Answer(t, 0, Attributes(FALSE, Len(files[p])))
             [] isDir(p) -> Answer(t, 0, Attributes(TRUE, 0))
             [] OTHER -> Answer(t, Error, <<>>)
    /\ UNCHANGED <<phase, url, dirs, cache, remote, seen, counts>>

readFileFile(t) ==
    /\ FileMode /\ Handles(t, {"read"})
    /\ IF isFile(req[t].path)
       THEN /\ req' = [req EXCEPT ![t].st = "store",
                      ![t].out = pread(files[req[t].path], req[t].len, req[t].off)]
            /\ UNCHANGED <<kernel, ret>>
       ELSE Answer(t, Error, <<>>)
    /\ UNCHANGED <<phase, url, dirs, cache, remote, seen, counts>>

\* Mutant: what was read is stored at the start of the copy.
storeAtStart(p, data, off) == Stored(copies, p, pwrite(Content(copies, p), data, 0))

\* cache_store_file; an entry that was evicted takes nothing, and where there is
\* nothing to store no copy is made.
cache_store_file(p, data, off) ==
    IF p \in evicted \/ data = <<>> THEN copies
    ELSE Stored(copies, p, pwrite(Content(copies, p), data, off))

\* The result of the store is not looked at.
readFileStore(t) ==
    /\ phase = "mounted" /\ req[t].st = "store"
    /\ copies' = cache_store_file(req[t].path, req[t].out, req[t].off)
    /\ Answer(t, Len(req[t].out), req[t].out)
    /\ UNCHANGED <<phase, url, dirs, evicted, remote, seen, counts>>

writeFileFile(t) ==
    /\ FileMode /\ Handles(t, {"write"})
    /\ LET p == req[t].path
       IN  IF realFilePath(p) /\ p \notin Dirs
           THEN /\ files' = Stored(files, p, pwrite(Content(files, p), req[t].data, req[t].off))
                /\ Answer(t, req[t].len, <<>>)
           ELSE UNCHANGED files /\ Answer(t, Error, <<>>)
    /\ Noted
    /\ UNCHANGED <<phase, url, dirs, cache, net, faults, counts>>

Storing(t) == req[t].st = "store" /\ req[t].out # <<>>

\* Only then is there a key in the policy, or a file in the cache's directory.
CacheInUse == DOMAIN copies # {} \/ \E t \in Threads : Storing(t)

\* Nothing catches what the cache throws.  In cache_store_file create_directories
\* may; in cache_apply_eviction used_gb may, or a key that lost half of its
\* address is followed: see EvictDies of CacheManager.
cacheDies(t) ==
    /\ phase = "mounted"
    /\ Storing(t) \/ (Handles(t, {"release"}) /\ CacheInUse)
    /\ phase' = "dead"
    /\ UNCHANGED <<url, dirs, cache, kernel, remote, req, ret, seen, counts>>

-----------------------------------------------------------------------------
(* Other URLs: the handlers wait for a transfer of the backend.            *)

\* Mutants: the buffer for the description is too short.
InfoCapShort == 4
InfoCapTiny == 2

\* buf(1024) holds the whole description.
InfoCap == 5

\* download of one byte into tmp, with size 0, if the cache has no entry.
getAttributeCall(t) ==
    /\ ~FileMode /\ Handles(t, {"getattr"})
    /\ IF httpMode THEN download(t, Endpoint("info"), req[t].path, InfoCap, 0)
       ELSE download(t, "data", req[t].path, 0, 0)

readFileCall(t) ==
    /\ ~FileMode /\ Handles(t, {"read"})
    /\ download(t, Endpoint("data"), req[t].path, req[t].len, req[t].off)

writeFileCall(t) ==
    /\ ~FileMode /\ Handles(t, {"write"})
    /\ upload(t, Endpoint("data"), req[t].path, req[t].data, req[t].off)

Call(t) ==
    /\ getAttributeCall(t) \/ readFileCall(t) \/ writeFileCall(t)
    /\ req' = [req EXCEPT ![t].st = "call"]
    /\ UNCHANGED <<phase, url, dirs, cache, kernel, ret, files, faults, seen, counts>>

\* getFileInfo.  The description may end anywhere; std::stoi throws if there
\* are no digits behind "size": and if the number is too large.
getFileInfo(body) ==
    Attributes(Len(body) >= 5 /\ body[5], IF Len(body) >= 3 THEN body[3] ELSE 0)

stoiThrows(body) == Len(body) = 2 \/ (Len(body) >= 3 /\ body[3] > IntMax)

Returned(t, op) == phase = "mounted" /\ req[t].st = "call" /\ req[t].op = op /\ Finished(t)

\* Mutant: the handle of the transfer is kept.
HangupNever(t) == UNCHANGED net

Hangup(t) == net' = [net EXCEPT ![t] = NoTransfer]

getAttributeReturn(t) ==
    /\ Returned(t, "getattr")
    /\ LET p == req[t].path
       IN  \/ Downloaded(t) < 0 /\ Answer(t, Error, <<>>)
           \/ /\ httpMode /\ Downloaded(t) >= 0 /\ ~stoiThrows(net[t].buf)
              /\ Answer(t, 0, getFileInfo(net[t].buf))
           \/ /\ ~httpMode /\ Downloaded(t) >= 0
              /\ Answer(t, IF p \in DOMAIN copies \ evicted THEN 0 ELSE Error, <<>>)
    /\ Hangup(t)
    /\ UNCHANGED <<phase, url, dirs, cache, files, faults, seen, counts>>

\* Nothing catches the exception.
getFileInfoThrows(t) ==
    /\ Returned(t, "getattr") /\ httpMode
    /\ Downloaded(t) >= 0 /\ stoiThrows(net[t].buf)
    /\ phase' = "dead"
    /\ UNCHANGED <<url, dirs, cache, kernel, remote, req, ret, seen, counts>>

readFileReturn(t) ==
    /\ Returned(t, "read")
    /\ Answer(t, Downloaded(t), net[t].buf)
    /\ Hangup(t)
    /\ UNCHANGED <<phase, url, dirs, cache, files, faults, seen, counts>>

writeFileReturn(t) ==
    /\ Returned(t, "write")
    /\ Answer(t, Uploaded(t), <<>>)
    /\ Hangup(t)
    /\ UNCHANGED <<phase, url, dirs, cache, files, faults, seen, counts>>

-----------------------------------------------------------------------------
Network(t) ==
    /\ phase = "mounted" /\ Transfer(t)
    /\ Noted
    /\ UNCHANGED <<phase, url, dirs, cache, kernel, req, ret, counts>>

Failing(t) ==
    /\ phase = "mounted" /\ Lose(t)
    /\ Noted
    /\ UNCHANGED <<phase, url, dirs, cache, kernel, req, ret, counts>>

\* fuse_main() returns, and cache_cleanup() ends the program.
Unmount ==
    /\ phase = "mounted" /\ \A t \in Threads : ~Active(t)
    /\ phase' = "exited"
    /\ UNCHANGED <<url, dirs, cache, kernel, remote, req, ret, seen, counts>>

Kernel(t) == SendName(t) \/ SendRead(t) \/ SendWrite(t)

Handler(t) ==
    \/ Dispatch(t) \/ DispatchName(t) \/ HideOpen(t) \/ releaseFiles(t) \/ cacheDies(t)
    \/ getAttributeFile(t) \/ readFileFile(t) \/ readFileStore(t) \/ writeFileFile(t)
    \/ Call(t) \/ getAttributeReturn(t) \/ getFileInfoThrows(t) \/ readFileReturn(t)
    \/ writeFileReturn(t)

Next ==
    \/ Main \/ Unmount
    \/ \E t \in Threads : Kernel(t) \/ Handler(t) \/ Network(t) \/ Failing(t)

Spec == Init /\ [][Next]_vars

\* libfuse's threads keep running, the server answers and TCP delivers what
\* was sent or reports that it cannot.
FairSpec == Spec /\ \A t \in Threads : WF_vars(Handler(t)) /\ WF_vars(Network(t))
=============================================================================
