--------------------------- MODULE FuseProperties ---------------------------
(***************************************************************************)
(* What a user of the mount can rely on, and where that ends.              *)
(***************************************************************************)
EXTENDS FuseFs

\* The answer that was given last, if it was to a request of this kind.
Got(op) == ret.req.op = op

\* Types of the process's and the kernel's state.
TypeOK ==
    /\ phase \in {"start", "mounted", "exited", "dead"}
    /\ url \in Urls \cup {"none"}
    /\ DOMAIN files \subseteq Names \ Dirs /\ \A p \in DOMAIN files : IsFile(files[p])
    /\ DOMAIN copies \subseteq DOMAIN files /\ \A p \in DOMAIN copies : IsFile(copies[p])
    /\ cacheDirectory \in {"own", "sibling"} /\ evicted \subseteq DOMAIN copies
    /\ known \subseteq Names /\ absent \subseteq Names /\ opened \subseteq DOMAIN files
    /\ \A t \in Threads : (net[t] # NoTransfer) => req[t].st = "call"
    /\ writes \in 0..MaxWrites /\ faults \in 0..MaxFaults

\* A read that succeeded returned a range of one content the file had while
\* the read ran: never a mixture of two, never the beginning of a body that
\* was cut off, and never more than was asked for (readFile, download,
\* write_slice_cb).
ReadIsSnapshot ==
    Got("read") /\ ret.res >= 0 =>
        /\ ret.res = Len(ret.out)
        /\ \E v \in seen[ret.by] : ret.out = pread(v, ret.req.len, ret.req.off)

\* A write that was answered with its length did reach the remote file, whole,
\* before it was answered: no connection lost underway is reported as success
\* (writeFile, upload).
AckedWriteApplied ==
    Got("write") /\ ret.res >= 0 =>
        /\ ret.res = ret.req.len
        /\ \E v \in seen[ret.by] :
              IF FileMode THEN pread(v, ret.req.len, ret.req.off) = ret.req.data
              ELSE v = ret.req.data

\* While no connection is lost, getattr tells a directory from a file and
\* reports a size the file had while the request ran, whatever the others
\* write meanwhile (getAttribute, getFileInfo, _get_file_info).
AttributesAreTrue ==
    Got("getattr") /\ ret.res = 0 /\ faults = 0 =>
        LET p == ret.req.path
        IN  /\ ret.out.dir = (p \in Dirs)
            /\ p \notin Dirs => \E v \in seen[ret.by] : ret.out.size = Len(v)

\* A cell of the cache's copy is a cell that some request wrote, or that was
\* there at the start, at this offset: readers store what they read where they
\* read it, in whatever order they get to it (readFile, cache_store_file).
CopyIsInPlace ==
    \A p \in DOMAIN copies : \A i \in DOMAIN copies[p] :
        copies[p][i] = Zero \/ copies[p][i][2] = i

\* A mount of a server dies only of an exception in getFileInfo, which takes a
\* connection lost in the middle of a description or a file that was larger
\* than an int while the request ran: whatever is written and released, nothing
\* of it comes into the cache, whose eviction could not be trusted to return
\* (fuse.cc:376-377, 421).  A mount of a directory dies only once a read has
\* begun to store what it got (fuse.cc:372; cache_manager.cc:131, 167-181).
Survives ==
    phase = "dead" =>
        IF FileMode THEN CacheInUse
        ELSE faults > 0 \/ \E t \in Threads : \E v \in seen[t] : Len(v) > IntMax

\* No sequence of requests adds a remote name or removes one, and none makes
\* anything in the directory next to the cache's: every lookup of a missing
\* name fails with -1, not -ENOENT, so that the kernel sends no create and no
\* mkdir, and unlink and rmdir work elsewhere (getAttribute, realCachePath).
\* That is not what README.md:62 says, which lists mkdir, rmdir and unlink as
\* implemented, nor what test_fuse.sh:72 expects, which makes a file.
MountKeepsNames ==
    [][DOMAIN files' = DOMAIN files /\ sibling' \subseteq sibling]_vars

\* Every request of the kernel is answered, unless the process dies: a lost
\* connection is an answer as well (readFile, writeFile, getAttribute).
RequestsAreAnswered ==
    \A t \in Threads : []<>(~Active(t) \/ phase = "dead")

\* The backend "abstracts HTTP range-based GET and PUT": a write to a range
\* leaves the rest of the file as it was at some time during the request.
RangeWritesKeepTheRest ==
    Got("write") /\ ret.res >= 0 =>
        \E old, v \in seen[ret.by] : v = pwrite(old, ret.req.data, ret.req.off)
=============================================================================
