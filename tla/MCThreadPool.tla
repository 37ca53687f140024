---------------------------- MODULE MCThreadPool ----------------------------
(* Instances of ThreadPool for TLC. *)
EXTENDS PoolProperties, TLC

CONSTANTS c1, c2

MCCallers == {c1, c2}
=============================================================================
