--------------------------- MODULE PoolProperties ---------------------------
(***************************************************************************)
(* What must hold of cache/thread_pool: the properties the runs check and  *)
(* ThreadPoolProofs proves.                                                *)
(***************************************************************************)
EXTENDS ThreadPool

Started == submitted - Len(tasks)

\* Type invariant of the pool: the queue, the mutex and the worker states that
\* worker() and the destructor assign.
TypeOK ==
    /\ mu \in Workers \cup {NoOne}
    /\ tasks \in Seq(Nat)
    /\ stop \in BOOLEAN
    /\ wpc \in [Workers -> WorkerPC]
    /\ job \in [Workers -> Nat]
    /\ cpc \in [Callers -> CallerPC]
    /\ dpc \in DtorPC
    /\ submitted \in 0..MaxTasks
    /\ done \subseteq 1..MaxTasks
    /\ spurious \in 0..MaxSpurious

Running(w) == wpc[w] = "run"

(* No task is lost, duplicated or reordered between enqueue() and job()    *)
(* (thread_pool.inl:9, thread_pool.cc:26-29): the queue holds exactly the  *)
(* tasks after the last one started, in submission order, and each started *)
(* task either has finished or is being run by exactly one worker.         *)
ExactlyOnce ==
    /\ Len(tasks) <= submitted
    /\ \A i \in 1..Len(tasks) : tasks[i] = Started + i
    /\ \A w \in Workers : Running(w) => job[w] \notin done
    /\ \A v, w \in Workers :
         Running(v) /\ Running(w) /\ job[v] = job[w] => v = w
    /\ done \cup {job[w] : w \in {v \in Workers : Running(v)}} = 1..Started

Looking == {w \in Workers : wpc[w] \in {"lock", "test"}}
Notifying == {c \in Callers : cpc[c] = "notify"}

(* Wakeups are not lost (thread_pool.inl:8-11, notify_one after the unlock)*)
(* and none is wasted: while a worker sleeps in cv_.wait, there are at     *)
(* least as many workers about to look at the queue, or notifications      *)
(* about to be sent, as there are tasks in the queue.                      *)
NoLostWakeup ==
    Waiting # {} =>
        Len(tasks) <= Cardinality(Looking) + Cardinality(Notifying)

(* Once the destructor has notified (thread_pool.cc:15) no worker is asleep*)
(* or about to fall asleep: join() cannot wait for a thread that nobody    *)
(* will wake.                                                              *)
NobodySleepsThroughStop ==
    dpc \in {"join", "gone"} => \A w \in Workers : wpc[w] \notin {"sleep", "wait"}

(* ~ThreadPool() drains the queue (thread_pool.cc:25, a worker leaves only *)
(* on an empty queue): when it returns every task ever submitted has run.  *)
DrainedOnDestroy ==
    dpc = "gone" => tasks = <<>> /\ done = 1..submitted

Phase ==
    IF dpc = "alive" THEN "open" ELSE IF dpc = "gone" THEN "gone" ELSE "closed"

TQ == INSTANCE TaskQueue WITH
        started <- Started, finished <- done, phase <- Phase

(* The pool implements the task queue schedule_prefetch relies on.         *)
ImplementsTaskQueue == TQ!Spec

(* Every task that enqueue() accepted is run in the end, whether or not the*)
(* pool is ever destroyed.                                                 *)
EveryTaskRuns == \A t \in 1..MaxTasks : (submitted >= t) ~> (t \in done)

(* The destructor returns: no worker keeps join() waiting for ever.        *)
DestructorReturns == (dpc # "alive") ~> (dpc = "gone")
=============================================================================
