------------------------------- MODULE MCFuse -------------------------------
(* Small instances of the mounted filesystem: one file f, one directory d  *)
(* and one name g that does not exist.                                     *)
EXTENDS FuseProperties, TLC

FileNames == {"f", "d", "g"}
FileDirs == {"d"}
AllUrls == {"file/", "file", "http/api/data", "http", "other"}
ServerUrl == {"http/api/data"}

\* One or two of every kind: with a handler, without one, and without one but
\* answered with success.
SomeOps ==
    {"getattr", "mkdir", "unlink", "rmdir", "open", "statfs", "release", "readdir", "create",
     "truncate", "opendir", "flush"}

Start(n) == [i \in 1..n |-> <<0, i>>]
OneFile == {"f" :> Start(2)}

\* A write of three cells makes the file longer than an int can say; there is a
\* range behind its end as well.
TwoRanges == {<<0, 3>>, <<3, 1>>}
=============================================================================
