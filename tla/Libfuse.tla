------------------------------ MODULE Libfuse -------------------------------
(***************************************************************************)
(* fuse/fuse.h, fuse_common.h and fuse_ops.cc: what the FUSE library makes *)
(* of the kernel's requests.  fuse_ops.cc and fuse_ops.h are a copy of     *)
(* dispatch functions of the library that remote_cache is linked with.     *)
(***************************************************************************)
EXTENDS Integers

ENOSYS == -38
EBUSY == -16
ENOENT == -2

\* struct fuse_operations, in the order of its members; init and destroy are
\* calls of the library's own.
NameOperations ==
    {"getattr", "readlink", "mknod", "mkdir", "unlink", "rmdir", "symlink", "rename",
     "link", "chmod", "chown", "truncate"}

FileOperations == {"open", "read", "write", "statfs", "flush", "release", "fsync"}

DirectoryOperations ==
    {"setxattr", "getxattr", "listxattr", "removexattr", "opendir", "readdir",
     "releasedir", "fsyncdir", "access", "create"}

ControlOperations == {"lock", "utimens", "bmap", "ioctl", "poll"}

\* write_buf and read_buf stand in for write and read.
RangeOperations == {"flock", "fallocate", "copy_file_range", "lseek"}

fuse_operations ==
    NameOperations \cup FileOperations \cup DirectoryOperations \cup ControlOperations
        \cup RangeOperations

\* The requests that make a name, that need a directory, and that need an open
\* file.
Creating == {"create", "mkdir", "mknod", "symlink", "link"}
OnDirectory == {"rmdir", "opendir", "readdir", "releasedir", "fsyncdir"}
OnOpenFile == {"flush", "fsync", "lock", "poll", "ioctl"} \cup RangeOperations

\* What is answered for a program that has no handler.
Unhandled(op) ==
    IF op \in {"open", "release", "opendir", "releasedir", "statfs"} THEN 0 ELSE ENOSYS

\* fuse_fs_<op>: the handler's result, if the program has one.
fuse_fs(handlers, op, res) == IF op \in handlers THEN res ELSE Unhandled(op)

\* The parameters of a request.
Idle == [st |-> "idle", op |-> "none", path |-> "/", off |-> 0, len |-> 0,
         data |-> <<>>, out |-> <<>>]

ReqFor(op, p, off, len) ==
    [Idle EXCEPT !.st = "sent", !.op = op, !.path = p, !.off = off, !.len = len]

\* The names the kernel knows after the answer res to op on p: a lookup is
\* believed until the next one.
KnownAfter(known, op, p, res) ==
    IF res = 0 /\ op \in {"getattr", "create", "mkdir"} THEN known \cup {p}
    ELSE IF op = "getattr" \/ (res = 0 /\ op \in {"unlink", "rmdir"}) THEN known \ {p}
    ELSE known

\* A failed lookup shows that a name is absent only if the error is ENOENT.
AbsentAfter(absent, op, p, res) ==
    IF op = "getattr" /\ res = ENOENT THEN absent \cup {p}
    ELSE IF res = 0 THEN absent \ {p} ELSE absent

\* File handles are made by open and create and end with release.
OpenedAfter(opened, op, p, res) ==
    IF res = 0 /\ op \in {"open", "create"} THEN opened \cup {p}
    ELSE IF op = "release" THEN opened \ {p} ELSE opened
=============================================================================
