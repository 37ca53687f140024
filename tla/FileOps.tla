------------------------------ MODULE FileOps -------------------------------
(***************************************************************************)
(* The file operations of the operating system, as the block store, the    *)
(* FUSE handlers and the local server use them.  A file is a sequence of   *)
(* cells; a cell stands for a run of bytes always read and written whole.  *)
(***************************************************************************)
EXTENDS Integers, Sequences

CONSTANT Zero       \* the content of a hole

Clip(n, len) == IF n <= 0 THEN 0 ELSE IF n < len THEN n ELSE len

\* What pread(fd, buf, len, off) delivers: it stops at the end of the file.
pread(f, len, off) == [i \in 1..Clip(Len(f) - off, len) |-> f[off + i]]

\* The file after pwrite(fd, data, Len(data), off): a gap between the old end
\* and off is a hole.  Writing nothing does not extend the file.
pwrite(f, data, off) ==
    IF data = <<>> THEN f
    ELSE [i \in 1..(IF Len(f) < off + Len(data) THEN off + Len(data) ELSE Len(f)) |->
            IF i > off /\ i <= off + Len(data) THEN data[i - off]
            ELSE IF i <= Len(f) THEN f[i] ELSE Zero]

\* A directory, a function from the names of its files to their contents, after
\* the file p has been given the content f.
Stored(dir, p, f) == [q \in DOMAIN dir \cup {p} |-> IF q = p THEN f ELSE dir[q]]

\* The content of p; opening it with O_CREAT makes an empty file of it.
Content(dir, p) == IF p \in DOMAIN dir THEN dir[p] ELSE <<>>
=============================================================================
