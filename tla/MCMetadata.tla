----------------------------- MODULE MCMetadata ------------------------------
(* Instances of MetadataStore for TLC. *)
EXTENDS MetadataProperties, TLC

CONSTANTS o1, p1, f1, f2

OneObject == {o1}
OnePath == {p1}
OneFlusher == {f1}
TwoFlushers == {f1, f2}
=============================================================================
