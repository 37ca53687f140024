------------------------------ MODULE TaskQueue ------------------------------
(***************************************************************************)
(* What the prefetch pool promises to the code that submits work to it     *)
(* (schedule_prefetch, cache_manager.cc): a submitted task is started      *)
(* exactly once, tasks are started in the order they were submitted, every *)
(* started task may finish at any time after that, and once the queue has  *)
(* been closed it is gone only when every submitted task has finished.     *)
(* Tasks are numbered in submission order.                                 *)
(***************************************************************************)
EXTENDS Naturals

CONSTANT MaxTasks                 \* bound on the number of submissions

VARIABLES
    submitted,   \* how many tasks have been submitted
    started,     \* how many tasks have been started: tasks 1..started
    finished,    \* the set of tasks that have finished
    phase        \* "open", "closed" (no more submissions) or "gone"

vars == <<submitted, started, finished, phase>>

Running == (1..started) \ finished

Init ==
    /\ submitted = 0
    /\ started = 0
    /\ finished = {}
    /\ phase = "open"

Submit ==
    /\ phase = "open"
    /\ submitted < MaxTasks
    /\ submitted' = submitted + 1
    /\ UNCHANGED <<started, finished, phase>>

Start ==
    /\ phase # "gone"
    /\ started < submitted
    /\ started' = started + 1
    /\ UNCHANGED <<submitted, finished, phase>>

Finish ==
    /\ phase # "gone"
    /\ \E t \in Running : finished' = finished \cup {t}
    /\ UNCHANGED <<submitted, started, phase>>

Close ==
    /\ phase = "open"
    /\ phase' = "closed"
    /\ UNCHANGED <<submitted, started, finished>>

Gone ==
    /\ phase = "closed"
    /\ finished = 1..submitted
    /\ phase' = "gone"
    /\ UNCHANGED <<submitted, started, finished>>

Next == Submit \/ Start \/ Finish \/ Close \/ Gone

Spec == Init /\ [][Next]_vars
=============================================================================
