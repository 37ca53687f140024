----------------------------- MODULE BlockStore -----------------------------
(***************************************************************************)
(* cache/block_store.cc and cache/fs_layout.h: an object is kept in files  *)
(* of at most kMaxPartSize cells, its parts.  A file is a sequence of      *)
(* cells; a part that does not exist is the empty sequence, which every    *)
(* reader treats alike: read() then returns less than a whole block.       *)
(* A cell stands for a run of bytes that is always read and written whole. *)
(***************************************************************************)
EXTENDS FileOps

CONSTANTS
    kBlockSize,     \* cells in a block
    kMaxPartSize,   \* cells in a part
    MaxPart         \* bound: largest part index

ASSUME LayoutAssumption ==
    /\ kBlockSize \in Nat \ {0} /\ kMaxPartSize \in Nat \ {0} /\ MaxPart \in Nat
    /\ kMaxPartSize % kBlockSize = 0

Parts == 0..MaxPart

-----------------------------------------------------------------------------
NoObject == [k \in Parts |-> <<>>]

PartOf(off) == off \div kMaxPartSize

\* Mutant: the part is chosen, but the offset is not made relative to it.
InPartAbsolute(off) == off

InPart(off) == off % kMaxPartSize

\* BlockStore::read of one block, BlockStore::write, and delete_object.
readBlock(obj, off) == pread(obj[PartOf(off)], kBlockSize, InPart(off))

write(obj, data, off) ==
    [obj EXCEPT ![PartOf(off)] = pwrite(@, data, InPart(off))]
=============================================================================
