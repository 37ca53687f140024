----------------------------- MODULE ThreadPool -----------------------------
(***************************************************************************)
(* cache/thread_pool.{h,cc,inl}: a fixed set of worker threads, a FIFO of  *)
(* tasks guarded by mu_, one condition variable cv_, and a stop_ flag that *)
(* the destructor raises.  Tasks are numbered in the order in which        *)
(* enqueue() pushes them.                                                  *)
(*                                                                         *)
(* A critical section that contains no wait is one atomic step taken while *)
(* mu_ is free.  cv_.wait(lock, pred) is three steps: the predicate is     *)
(* tested with mu_ held, the thread commits to sleeping, still holding     *)
(* mu_, and only then releases mu_ and joins the wait set.  A notification *)
(* sent between the last two steps does not reach the thread.              *)
(***************************************************************************)
EXTENDS Integers, Sequences, FiniteSets

CONSTANTS
    NumThreads,    \* the constructor's argument
    Callers,       \* threads that call enqueue()
    MaxTasks,      \* bound: how many tasks the callers submit in all
    MaxSpurious,   \* bound: how many spurious wakeups occur
    NoOne          \* value of mu when the mutex is free

\* thread_pool.cc:4, a pool of no threads is given one.
Workers == 1..(IF NumThreads = 0 THEN 1 ELSE NumThreads)

ASSUME NumThreadsAssumption == NumThreads \in Nat
ASSUME BoundsAssumption == MaxTasks \in Nat /\ MaxSpurious \in Nat
ASSUME NoOneAssumption == NoOne \notin Workers
ASSUME CallersAssumption == IsFiniteSet(Callers)

VARIABLES
    mu,          \* the worker that holds mu_ across steps, or NoOne
    tasks,       \* tasks_
    stop,        \* stop_
    wpc,         \* where each worker is in worker_loop
    job,         \* the task each worker runs (0: none)
    cpc,         \* where each caller is in enqueue
    dpc,         \* where the destructor is ("alive": not entered)
    submitted,   \* history: number of tasks pushed
    done,        \* history: tasks whose job() has returned
    spurious     \* spurious wakeups so far

vars == <<mu, tasks, stop, wpc, job, cpc, dpc, submitted, done, spurious>>

WorkerPC == {"lock", "test", "sleep", "wait", "run", "exit"}
CallerPC == {"idle", "notify"}
DtorPC == {"alive", "stop", "notify", "join", "gone"}

Waiting == {w \in Workers : wpc[w] = "wait"}

Init ==
    /\ mu = NoOne
    /\ tasks = <<>>
    /\ stop = FALSE
    /\ wpc = [w \in Workers |-> "lock"]
    /\ job = [w \in Workers |-> 0]
    /\ cpc = [c \in Callers |-> "idle"]
    /\ dpc = "alive"
    /\ submitted = 0
    /\ done = {}
    /\ spurious = 0

-----------------------------------------------------------------------------
(* enqueue(): push under the lock, then notify_one without it.             *)

EnqueuePush(c) ==
    /\ cpc[c] = "idle"
    /\ dpc = "alive"                    \* the pool's lifetime has not ended
    /\ submitted < MaxTasks
    /\ mu = NoOne
    /\ submitted' = submitted + 1
    /\ tasks' = Append(tasks, submitted + 1)
    /\ cpc' = [cpc EXCEPT ![c] = "notify"]
    /\ UNCHANGED <<mu, stop, wpc, job, dpc, done, spurious>>

\* Mutant: the notification is forgotten.
WakeNone == {wpc}

\* The states of the workers after cv_.notify_one(): one of those that wait,
\* if there is one, goes on to reacquire mu_.
WakeOne ==
    IF Waiting = {} THEN {wpc}
    ELSE {[wpc EXCEPT ![w] = "lock"] : w \in Waiting}

EnqueueNotify(c) ==
    /\ cpc[c] = "notify"
    /\ wpc' \in WakeOne
    /\ cpc' = [cpc EXCEPT ![c] = "idle"]
    /\ UNCHANGED <<mu, tasks, stop, job, dpc, submitted, done, spurious>>

-----------------------------------------------------------------------------
(* worker_loop()                                                           *)

WorkerLock(w) ==
    /\ wpc[w] = "lock"
    /\ mu = NoOne
    /\ mu' = w
    /\ wpc' = [wpc EXCEPT ![w] = "test"]
    /\ UNCHANGED <<tasks, stop, job, cpc, dpc, submitted, done, spurious>>

\* The wait predicate is false.
WorkerSleep(w) ==
    /\ wpc[w] = "test"
    /\ ~stop /\ tasks = <<>>
    /\ wpc' = [wpc EXCEPT ![w] = "sleep"]
    /\ UNCHANGED <<mu, tasks, stop, job, cpc, dpc, submitted, done, spurious>>

WorkerWait(w) ==
    /\ wpc[w] = "sleep"
    /\ mu' = NoOne
    /\ wpc' = [wpc EXCEPT ![w] = "wait"]
    /\ UNCHANGED <<tasks, stop, job, cpc, dpc, submitted, done, spurious>>

WorkerSpurious(w) ==
    /\ wpc[w] = "wait"
    /\ spurious < MaxSpurious
    /\ spurious' = spurious + 1
    /\ wpc' = [wpc EXCEPT ![w] = "lock"]
    /\ UNCHANGED <<mu, tasks, stop, job, cpc, dpc, submitted, done>>

\* Mutant: a worker leaves as soon as stop_ is set.
WorkerExitEarly(w) ==
    /\ wpc[w] = "test"
    /\ stop
    /\ mu' = NoOne
    /\ wpc' = [wpc EXCEPT ![w] = "exit"]
    /\ UNCHANGED <<tasks, stop, job, cpc, dpc, submitted, done, spurious>>

WorkerExit(w) ==
    /\ wpc[w] = "test"
    /\ stop /\ tasks = <<>>
    /\ mu' = NoOne
    /\ wpc' = [wpc EXCEPT ![w] = "exit"]
    /\ UNCHANGED <<tasks, stop, job, cpc, dpc, submitted, done, spurious>>

\* Mutant: front() without pop().
WorkerPeek(w) ==
    /\ wpc[w] = "test"
    /\ tasks # <<>>
    /\ job' = [job EXCEPT ![w] = Head(tasks)]
    /\ mu' = NoOne
    /\ wpc' = [wpc EXCEPT ![w] = "run"]
    /\ UNCHANGED <<tasks, stop, cpc, dpc, submitted, done, spurious>>

\* Mutant: the last task is taken instead of the first.
WorkerPopBack(w) ==
    /\ wpc[w] = "test"
    /\ tasks # <<>>
    /\ job' = [job EXCEPT ![w] = tasks[Len(tasks)]]
    /\ tasks' = SubSeq(tasks, 1, Len(tasks) - 1)
    /\ mu' = NoOne
    /\ wpc' = [wpc EXCEPT ![w] = "run"]
    /\ UNCHANGED <<stop, cpc, dpc, submitted, done, spurious>>

WorkerPop(w) ==
    /\ wpc[w] = "test"
    /\ tasks # <<>>
    /\ job' = [job EXCEPT ![w] = Head(tasks)]
    /\ tasks' = Tail(tasks)
    /\ mu' = NoOne
    /\ wpc' = [wpc EXCEPT ![w] = "run"]
    /\ UNCHANGED <<stop, cpc, dpc, submitted, done, spurious>>

\* Mutant: the job slot is reset before it is used.
WorkerRunCleared(w) ==
    /\ wpc[w] = "run"
    /\ job' = [job EXCEPT ![w] = 0]
    /\ done' = done \cup {job'[w]}
    /\ wpc' = [wpc EXCEPT ![w] = "lock"]
    /\ UNCHANGED <<mu, tasks, stop, cpc, dpc, submitted, spurious>>

\* Mutant: an exception leaves the loop and ends the thread.
WorkerRunThrows(w) ==
    /\ wpc[w] = "run"
    /\ done' = done \cup {job[w]}
    /\ job' = [job EXCEPT ![w] = 0]
    /\ wpc' = [wpc EXCEPT ![w] = "exit"]
    /\ UNCHANGED <<mu, tasks, stop, cpc, dpc, submitted, spurious>>

\* job() returns: the packaged task stores an exception instead of letting
\* it out, so the loop always goes on.
WorkerRun(w) ==
    /\ wpc[w] = "run"
    /\ done' = done \cup {job[w]}
    /\ job' = [job EXCEPT ![w] = 0]
    /\ wpc' = [wpc EXCEPT ![w] = "lock"]
    /\ UNCHANGED <<mu, tasks, stop, cpc, dpc, submitted, spurious>>

-----------------------------------------------------------------------------
(* ~ThreadPool()                                                           *)

\* Destroying an object whose member functions are still running is undefined
\* behaviour in C++: the owner lets every enqueue() return first.
DtorEnter ==
    /\ dpc = "alive"
    /\ \A c \in Callers : cpc[c] = "idle"
    /\ dpc' = "stop"
    /\ UNCHANGED <<mu, tasks, stop, wpc, job, cpc, submitted, done, spurious>>

\* Mutant: stop_ is set without taking mu_.
DtorStopUnlocked ==
    /\ dpc = "stop"
    /\ stop' = TRUE
    /\ dpc' = "notify"
    /\ UNCHANGED <<mu, tasks, wpc, job, cpc, submitted, done, spurious>>

DtorStop ==
    /\ dpc = "stop"
    /\ mu = NoOne
    /\ stop' = TRUE
    /\ dpc' = "notify"
    /\ UNCHANGED <<mu, tasks, wpc, job, cpc, submitted, done, spurious>>

\* The states of the workers after cv_.notify_all().
WakeAll == [w \in Workers |-> IF wpc[w] = "wait" THEN "lock" ELSE wpc[w]]

\* Mutant: notify_one in the destructor.
DtorNotifyOne ==
    /\ dpc = "notify"
    /\ wpc' \in WakeOne
    /\ dpc' = "join"
    /\ UNCHANGED <<mu, tasks, stop, job, cpc, submitted, done, spurious>>

DtorNotify ==
    /\ dpc = "notify"
    /\ wpc' = WakeAll
    /\ dpc' = "join"
    /\ UNCHANGED <<mu, tasks, stop, job, cpc, submitted, done, spurious>>

DtorJoin ==
    /\ dpc = "join"
    /\ \A w \in Workers : wpc[w] = "exit"
    /\ dpc' = "gone"
    /\ UNCHANGED <<mu, tasks, stop, wpc, job, cpc, submitted, done, spurious>>

\* Nothing runs after the destructor has returned; any other state without a
\* step is a deadlock.
Gone == dpc = "gone" /\ UNCHANGED vars

-----------------------------------------------------------------------------
WorkerStep(w) ==
    \/ WorkerLock(w) \/ WorkerSleep(w) \/ WorkerWait(w)
    \/ WorkerExit(w) \/ WorkerPop(w) \/ WorkerRun(w)

Next ==
    \/ \E c \in Callers : EnqueuePush(c) \/ EnqueueNotify(c)
    \/ \E w \in Workers : WorkerStep(w) \/ WorkerSpurious(w)
    \/ DtorEnter \/ DtorStop \/ DtorNotify \/ DtorJoin
    \/ Gone

Spec == Init /\ [][Next]_vars

\* Threads that can run do run, and a task returns once it is started.  Nobody
\* has to submit a task, to destroy the pool or to be woken spuriously.
Fairness ==
    /\ \A w \in Workers : WF_vars(WorkerStep(w))
    /\ \A c \in Callers : WF_vars(EnqueueNotify(c))
    /\ WF_vars(DtorStop) /\ WF_vars(DtorNotify) /\ WF_vars(DtorJoin)

FairSpec == Spec /\ Fairness
=============================================================================
