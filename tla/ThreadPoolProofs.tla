--------------------------- MODULE ThreadPoolProofs ---------------------------
(***************************************************************************)
(* The safety of cache/thread_pool for every number of threads, callers,   *)
(* tasks and spurious wakeups.  The inductive invariant adds to the        *)
(* properties who holds mu_ (LockInv) and what the destructor's progress   *)
(* says of stop_, the callers and the workers (StopInv).                   *)
(***************************************************************************)
EXTENDS PoolProperties, TLAPS, FiniteSetTheorems, SequenceTheorems

(* Exactly the worker that is between lock and unlock holds mu_.           *)
LockInv == \A w \in Workers : (wpc[w] \in {"test", "sleep"}) <=> (mu = w)

(* stop_ follows the destructor, a worker commits to sleeping or to leaving*)
(* only on the queue and flag it saw under mu_, and nobody enqueues once   *)
(* the destructor has been entered.                                        *)
StopInv ==
    /\ stop <=> dpc \in {"notify", "join", "gone"}
    /\ dpc # "alive" => \A c \in Callers : cpc[c] = "idle"
    /\ \A w \in Workers : wpc[w] = "sleep" => ~stop /\ tasks = <<>>
    /\ \A w \in Workers : wpc[w] = "exit" => stop /\ tasks = <<>>
    /\ NobodySleepsThroughStop
    /\ dpc = "gone" => \A w \in Workers : wpc[w] = "exit"

(* The part of the inductive invariant that does not count workers.        *)
SafeInv == TypeOK /\ LockInv /\ StopInv /\ ExactlyOnce

-----------------------------------------------------------------------------
(* There is a worker.                                                      *)
LEMMA WorkersNonEmpty == 1 \in Workers /\ Workers \subseteq Nat
  BY NumThreadsAssumption DEF Workers

(* The invariant holds initially.                                          *)
LEMMA InitSafe == Init => SafeInv
<1> SUFFICES ASSUME Init PROVE SafeInv
  OBVIOUS
<1> USE WorkersNonEmpty, NoOneAssumption, BoundsAssumption
<1>1. TypeOK
  <2>1. tasks \in Seq(Nat)
    BY EmptySeq DEF Init
  <2>2. /\ submitted \in 0..MaxTasks /\ spurious \in 0..MaxSpurious
        /\ job \in [Workers -> Nat]
    BY DEF Init
  <2> QED BY <2>1, <2>2, Zenon DEF Init, TypeOK, WorkerPC, CallerPC, DtorPC
<1>2. LockInv
  BY DEF Init, LockInv
<1>3. StopInv
  BY DEF Init, StopInv, NobodySleepsThroughStop
<1>4. ExactlyOnce
  BY DEF Init, ExactlyOnce, Started, Running
<1> QED BY <1>1, <1>2, <1>3, <1>4 DEF SafeInv

(* Every step keeps the types.                                             *)
LEMMA TypeStep == SafeInv /\ [Next]_vars => TypeOK'
<1> SUFFICES ASSUME SafeInv, [Next]_vars PROVE TypeOK'
  OBVIOUS
<1> USE WorkersNonEmpty, NoOneAssumption, BoundsAssumption
<1> USE DEF SafeInv, TypeOK, WorkerPC, CallerPC, DtorPC
<1>1. ASSUME NEW c \in Callers, EnqueuePush(c) PROVE TypeOK'
  BY <1>1 DEF EnqueuePush
<1>2. ASSUME NEW c \in Callers, EnqueueNotify(c) PROVE TypeOK'
  BY <1>2 DEF EnqueueNotify, WakeOne, Waiting
<1>3. ASSUME NEW w \in Workers, WorkerStep(w) \/ WorkerSpurious(w) PROVE TypeOK'
  <2>1. CASE WorkerLock(w) BY <2>1 DEF WorkerLock
  <2>2. CASE WorkerSleep(w) BY <2>2 DEF WorkerSleep
  <2>3. CASE WorkerWait(w) BY <2>3 DEF WorkerWait
  <2>4. CASE WorkerExit(w) BY <2>4 DEF WorkerExit
  <2>5. CASE WorkerPop(w) BY <2>5, HeadTailProperties DEF WorkerPop
  <2>6. CASE WorkerRun(w)
    <3>1. job[w] \in 1..Started
      BY <2>6 DEF WorkerRun, ExactlyOnce, Running
    <3>2. Started \in 0..MaxTasks
      BY LenProperties DEF Started, ExactlyOnce
    <3>3. job[w] \in 1..MaxTasks
      BY <3>1, <3>2
    <3>4. done' \subseteq 1..MaxTasks
      BY <2>6, <3>3, Zenon DEF WorkerRun
    <3>5. wpc' \in [Workers -> WorkerPC] /\ job' \in [Workers -> Nat]
      BY <2>6 DEF WorkerRun
    <3> QED BY <2>6, <3>4, <3>5 DEF WorkerRun
  <2>7. CASE WorkerSpurious(w) BY <2>7 DEF WorkerSpurious
  <2> QED BY <1>3, <2>1, <2>2, <2>3, <2>4, <2>5, <2>6, <2>7 DEF WorkerStep
<1>4. CASE DtorEnter BY <1>4 DEF DtorEnter
<1>5. CASE DtorStop BY <1>5 DEF DtorStop
<1>6. CASE DtorNotify BY <1>6 DEF DtorNotify, WakeAll
<1>7. CASE DtorJoin BY <1>7 DEF DtorJoin
<1>8. CASE Gone \/ UNCHANGED vars BY <1>8 DEF Gone, vars
<1> QED BY <1>1, <1>2, <1>3, <1>4, <1>5, <1>6, <1>7, <1>8 DEF Next

(* Every step keeps who holds the mutex, and what its holder saw.          *)
LEMMA LockStep == SafeInv /\ [Next]_vars => LockInv'
<1> SUFFICES ASSUME SafeInv, [Next]_vars PROVE LockInv'
  OBVIOUS
<1> USE WorkersNonEmpty, NoOneAssumption
<1> USE DEF SafeInv, TypeOK, LockInv
<1>1. ASSUME NEW c \in Callers, EnqueuePush(c) PROVE LockInv'
  BY <1>1 DEF EnqueuePush
<1>2. ASSUME NEW c \in Callers, EnqueueNotify(c) PROVE LockInv'
  BY <1>2 DEF EnqueueNotify, WakeOne, Waiting
<1>3. ASSUME NEW w \in Workers, WorkerStep(w) \/ WorkerSpurious(w) PROVE LockInv'
  <2>1. CASE WorkerLock(w) BY <2>1 DEF WorkerLock
  <2>2. CASE WorkerSleep(w) BY <2>2 DEF WorkerSleep
  <2>3. CASE WorkerWait(w) BY <2>3 DEF WorkerWait
  <2>4. CASE WorkerExit(w) BY <2>4 DEF WorkerExit
  <2>5. CASE WorkerPop(w) BY <2>5 DEF WorkerPop
  <2>6. CASE WorkerRun(w) BY <2>6 DEF WorkerRun
  <2>7. CASE WorkerSpurious(w) BY <2>7 DEF WorkerSpurious
  <2> QED BY <1>3, <2>1, <2>2, <2>3, <2>4, <2>5, <2>6, <2>7 DEF WorkerStep
<1>4. CASE DtorEnter BY <1>4 DEF DtorEnter
<1>5. CASE DtorStop BY <1>5 DEF DtorStop
<1>6. CASE DtorNotify BY <1>6 DEF DtorNotify, WakeAll
<1>7. CASE DtorJoin BY <1>7 DEF DtorJoin
<1>8. CASE Gone \/ UNCHANGED vars BY <1>8 DEF Gone, vars
<1> QED BY <1>1, <1>2, <1>3, <1>4, <1>5, <1>6, <1>7, <1>8 DEF Next

(* Every step keeps stop in line with where the destructor is.             *)
LEMMA StopStep == SafeInv /\ [Next]_vars => StopInv'
<1> SUFFICES ASSUME SafeInv, [Next]_vars PROVE StopInv'
  OBVIOUS
<1> USE WorkersNonEmpty, NoOneAssumption
<1> USE DEF SafeInv, TypeOK, LockInv, StopInv, NobodySleepsThroughStop
<1>1. ASSUME NEW c \in Callers, EnqueuePush(c) PROVE StopInv'
  BY <1>1 DEF EnqueuePush
<1>2. ASSUME NEW c \in Callers, EnqueueNotify(c) PROVE StopInv'
  BY <1>2 DEF EnqueueNotify, WakeOne, Waiting
<1>3. ASSUME NEW w \in Workers, WorkerStep(w) \/ WorkerSpurious(w) PROVE StopInv'
  <2>1. CASE WorkerLock(w) BY <2>1 DEF WorkerLock
  <2>2. CASE WorkerSleep(w) BY <2>2 DEF WorkerSleep
  <2>3. CASE WorkerWait(w) BY <2>3 DEF WorkerWait
  <2>4. CASE WorkerExit(w) BY <2>4 DEF WorkerExit
  <2>5. CASE WorkerPop(w) BY <2>5 DEF WorkerPop
  <2>6. CASE WorkerRun(w) BY <2>6 DEF WorkerRun
  <2>7. CASE WorkerSpurious(w) BY <2>7 DEF WorkerSpurious
  <2> QED BY <1>3, <2>1, <2>2, <2>3, <2>4, <2>5, <2>6, <2>7 DEF WorkerStep
<1>4. CASE DtorEnter BY <1>4 DEF DtorEnter
<1>5. CASE DtorStop BY <1>5 DEF DtorStop
<1>6. CASE DtorNotify BY <1>6 DEF DtorNotify, WakeAll
<1>7. CASE DtorJoin BY <1>7 DEF DtorJoin
<1>8. CASE Gone \/ UNCHANGED vars BY <1>8 DEF Gone, vars
<1> QED BY <1>1, <1>2, <1>3, <1>4, <1>5, <1>6, <1>7, <1>8 DEF Next

(* A step that keeps the queue, the finished tasks, the jobs and who runs  *)
(* one keeps ExactlyOnce.                                                  *)
LEMMA QuietStep ==
  ASSUME SafeInv,
         UNCHANGED <<tasks, submitted, job, done>>,
         \A v \in Workers : Running(v)' <=> Running(v)
  PROVE  ExactlyOnce'
  BY DEF SafeInv, ExactlyOnce, Started, Running

(* Every step keeps the tasks in one place each, and in order.             *)
LEMMA OnceStep == SafeInv /\ [Next]_vars => ExactlyOnce'
<1> SUFFICES ASSUME SafeInv, [Next]_vars PROVE ExactlyOnce'
  OBVIOUS
<1> USE WorkersNonEmpty, NoOneAssumption, BoundsAssumption
<1>t. TypeOK /\ ExactlyOnce /\ Len(tasks) \in Nat /\ Started \in Nat
  BY LenProperties DEF SafeInv, TypeOK, ExactlyOnce, Started
<1>1. ASSUME NEW c \in Callers, EnqueuePush(c) PROVE ExactlyOnce'
  <2>1. /\ Len(tasks') = Len(tasks) + 1
        /\ \A i \in 1..Len(tasks) : tasks'[i] = tasks[i]
        /\ tasks'[Len(tasks) + 1] = submitted + 1
    BY <1>1, <1>t, AppendProperties DEF EnqueuePush, TypeOK
  <2>2. Started' = Started
    BY <1>1, <1>t, <2>1 DEF EnqueuePush, Started, TypeOK
  <2>3. \A i \in 1..Len(tasks') : tasks'[i] = Started' + i
    <3> SUFFICES ASSUME NEW i \in 1..Len(tasks') PROVE tasks'[i] = Started + i
      BY <2>2
    <3>1. CASE i \in 1..Len(tasks) BY <1>t, <2>1, <3>1 DEF ExactlyOnce
    <3>2. CASE i = Len(tasks) + 1 BY <1>t, <2>1, <3>2 DEF Started, TypeOK
    <3> QED BY <1>t, <2>1, <3>1, <3>2
  <2> QED BY <1>1, <1>t, <2>1, <2>2, <2>3 DEF EnqueuePush, ExactlyOnce, Running, TypeOK
<1>2. ASSUME NEW c \in Callers, EnqueueNotify(c) PROVE ExactlyOnce'
  <2>1. \A v \in Workers : Running(v)' <=> Running(v)
    BY <1>2, <1>t DEF EnqueueNotify, WakeOne, Waiting, Running, TypeOK
  <2> QED BY <1>2, <2>1, QuietStep DEF EnqueueNotify
<1>3. ASSUME NEW w \in Workers, WorkerPop(w) PROVE ExactlyOnce'
  <2>1. /\ Head(tasks) = tasks[1]
        /\ Len(tasks') = Len(tasks) - 1
        /\ \A i \in 1..Len(tasks') : tasks'[i] = tasks[i + 1]
        /\ Len(tasks) >= 1
    BY <1>3, <1>t, HeadTailProperties, EmptySeq DEF WorkerPop, TypeOK
  <2>2. Started' = Started + 1 /\ Head(tasks) = Started + 1
    BY <1>3, <1>t, <2>1 DEF WorkerPop, Started, ExactlyOnce, TypeOK
  <2>3. \A i \in 1..Len(tasks') : tasks'[i] = Started' + i
    BY <1>t, <2>1, <2>2 DEF ExactlyOnce
  <2>4. /\ ~Running(w) /\ Running(w)' /\ job'[w] = Started + 1
        /\ \A v \in Workers \ {w} : (Running(v)' <=> Running(v)) /\ job'[v] = job[v]
    BY <1>3, <1>t, <2>2 DEF WorkerPop, Running, TypeOK
  <2>5. /\ Started + 1 \notin done
        /\ \A v \in Workers : Running(v) => job[v] # Started + 1
    <3>1. done \cup {job[v] : v \in {u \in Workers : Running(u)}} = 1..Started
      BY <1>t DEF ExactlyOnce
    <3>2. Started + 1 \notin 1..Started
      BY <1>t
    <3> QED BY <3>1, <3>2, Zenon
  <2>6. /\ \A v \in Workers : Running(v)' => job'[v] \notin done
        /\ \A u, v \in Workers : Running(u)' /\ Running(v)' /\ job'[u] = job'[v] => u = v
    BY <1>t, <2>4, <2>5 DEF ExactlyOnce
  <2>7. {job'[v] : v \in {u \in Workers : Running(u)'}}
          = {job[v] : v \in {u \in Workers : Running(u)}} \cup {Started + 1}
    BY <2>4
  <2>8. 1..(Started + 1) = (1..Started) \cup {Started + 1}
    BY <1>t
  <2>9. done \cup {job'[v] : v \in {u \in Workers : Running(u)'}} = 1..Started'
    BY <1>t, <2>2, <2>7, <2>8 DEF ExactlyOnce
  <2>10. Len(tasks') <= submitted' /\ done' = done
    BY <1>3, <1>t, <2>1 DEF WorkerPop, ExactlyOnce, TypeOK
  <2> QED BY <2>3, <2>6, <2>9, <2>10, Zenon DEF ExactlyOnce
<1>4. ASSUME NEW w \in Workers, WorkerRun(w) PROVE ExactlyOnce'
  <2>1. Started' = Started
    BY <1>4 DEF WorkerRun, Started
  <2>2. /\ Running(w) /\ ~Running(w)' /\ done' = done \cup {job[w]}
        /\ \A v \in Workers \ {w} : (Running(v)' <=> Running(v)) /\ job'[v] = job[v]
    BY <1>4, <1>t DEF WorkerRun, Running, TypeOK
  <2>3. /\ \A v \in Workers : Running(v)' => job'[v] \notin done'
        /\ \A u, v \in Workers : Running(u)' /\ Running(v)' /\ job'[u] = job'[v] => u = v
    BY <1>t, <2>2 DEF ExactlyOnce
  <2>4. {job[v] : v \in {u \in Workers : Running(u)}}
          = {job'[v] : v \in {u \in Workers : Running(u)'}} \cup {job[w]}
    BY <2>2
  <2>5. done' \cup {job'[v] : v \in {u \in Workers : Running(u)'}} = 1..Started'
    BY <1>t, <2>1, <2>2, <2>4 DEF ExactlyOnce
  <2> QED BY <1>4, <1>t, <2>1, <2>3, <2>5 DEF WorkerRun, ExactlyOnce
<1>5. ASSUME NEW w \in Workers,
             \/ WorkerLock(w) \/ WorkerSleep(w) \/ WorkerWait(w)
             \/ WorkerExit(w) \/ WorkerSpurious(w)
      PROVE  ExactlyOnce'
  <2>1. \A v \in Workers : Running(v)' <=> Running(v)
    BY <1>5, <1>t DEF WorkerLock, WorkerSleep, WorkerWait, WorkerExit, WorkerSpurious, Running, TypeOK
  <2> QED BY <1>5, <2>1, QuietStep DEF WorkerLock, WorkerSleep, WorkerWait, WorkerExit, WorkerSpurious
<1>6. CASE DtorNotify
  <2>1. \A v \in Workers : Running(v)' <=> Running(v)
    BY <1>6, <1>t DEF DtorNotify, WakeAll, Running, TypeOK
  <2> QED BY <1>6, <2>1, QuietStep DEF DtorNotify
<1>7. CASE DtorEnter \/ DtorStop \/ DtorJoin \/ Gone \/ UNCHANGED vars
  <2>1. \A v \in Workers : Running(v)' <=> Running(v)
    BY <1>7 DEF DtorEnter, DtorStop, DtorJoin, Gone, vars, Running
  <2> QED BY <1>7, <2>1, QuietStep DEF DtorEnter, DtorStop, DtorJoin, Gone, vars
<1> QED BY <1>1, <1>2, <1>3, <1>4, <1>5, <1>6, <1>7 DEF Next, WorkerStep

(* The invariant is inductive.                                             *)
LEMMA SafeStep == SafeInv /\ [Next]_vars => SafeInv'
  BY TypeStep, LockStep, StopStep, OnceStep DEF SafeInv

(* Every state of the pool is of the expected type.                        *)
THEOREM TypeCorrect == Spec => []TypeOK
<1>1. Spec => []SafeInv
  BY InitSafe, SafeStep, PTL DEF Spec
<1>2. SafeInv => TypeOK
  BY DEF SafeInv
<1> QED BY <1>1, <1>2, PTL

(* No task is lost, run twice or started out of order, however many        *)
(* threads, callers and tasks there are.                                   *)
THEOREM TasksRunExactlyOnce == Spec => []ExactlyOnce
<1>1. Spec => []SafeInv
  BY InitSafe, SafeStep, PTL DEF Spec
<1>2. SafeInv => ExactlyOnce
  BY DEF SafeInv
<1> QED BY <1>1, <1>2, PTL

(* The stop flag reaches every worker that sleeps or is about to.          *)
THEOREM StopReachesSleepers == Spec => []NobodySleepsThroughStop
<1>1. Spec => []SafeInv
  BY InitSafe, SafeStep, PTL DEF Spec
<1>2. SafeInv => NobodySleepsThroughStop
  BY DEF SafeInv, StopInv
<1> QED BY <1>1, <1>2, PTL

(* When every worker has left, every task has been run.  The pool's one    *)
(* guaranteed worker (the clamp) is what makes this hold when it is built  *)
(* for no threads.                                                         *)
LEMMA ExitedDrained ==
  ASSUME SafeInv, \A w \in Workers : wpc[w] = "exit"
  PROVE  tasks = <<>> /\ done = 1..submitted
<1>1. tasks = <<>>
  BY WorkersNonEmpty DEF SafeInv, StopInv
<1>2. {w \in Workers : Running(w)} = {}
  BY DEF SafeInv, StopInv, Running
<1>3. Started = submitted
  BY <1>1, EmptySeq DEF Started, SafeInv, TypeOK
<1> QED BY <1>1, <1>2, <1>3 DEF SafeInv, ExactlyOnce

(* When the destructor has returned, every submitted task has been run.    *)
THEOREM DestroyDrains == Spec => []DrainedOnDestroy
<1>1. Spec => []SafeInv
  BY InitSafe, SafeStep, PTL DEF Spec
<1>2. SafeInv => DrainedOnDestroy
  BY ExitedDrained DEF DrainedOnDestroy, SafeInv, StopInv
<1> QED BY <1>1, <1>2, PTL

-----------------------------------------------------------------------------
(* Wakeups: the count of workers and notifications that NoLostWakeup needs.*)

(* Sets of threads can be counted.                                         *)
LEMMA FiniteThreads ==
  /\ \A S \in SUBSET Workers : IsFiniteSet(S) /\ Cardinality(S) \in Nat
  /\ \A S \in SUBSET Callers : IsFiniteSet(S) /\ Cardinality(S) \in Nat
<1>1. IsFiniteSet(Workers)
  BY NumThreadsAssumption, FS_Interval DEF Workers
<1>2. \A T : IsFiniteSet(T) => \A S \in SUBSET T : IsFiniteSet(S) /\ Cardinality(S) \in Nat
  BY FS_Subset, FS_CardinalityType
<1> QED BY <1>1, <1>2, CallersAssumption

(* Every step keeps enough workers and notifications on their way.         *)
LEMMA WakeupStep == SafeInv /\ NoLostWakeup /\ [Next]_vars => NoLostWakeup'
<1> SUFFICES ASSUME SafeInv, NoLostWakeup, [Next]_vars, Waiting' # {}
             PROVE  Len(tasks') <= Cardinality(Looking') + Cardinality(Notifying')
  BY DEF NoLostWakeup
<1> DEFINE Enough == Len(tasks') <= Cardinality(Looking') + Cardinality(Notifying')
<1>t. TypeOK /\ TypeOK'
  BY TypeStep DEF SafeInv
<1>c. /\ IsFiniteSet(Looking) /\ Cardinality(Looking) \in Nat
      /\ IsFiniteSet(Notifying) /\ Cardinality(Notifying) \in Nat
      /\ Len(tasks) \in Nat
  BY <1>t, FiniteThreads, LenProperties DEF Looking, Notifying, TypeOK
<1>d. Cardinality(Looking') \in Nat /\ Cardinality(Notifying') \in Nat
  BY FiniteThreads DEF Looking, Notifying
<1>e. Len(<<>>) = 0
  BY EmptySeq
<1>s. ASSUME tasks' = tasks, Looking' = Looking, Notifying' = Notifying, Waiting # {}
      PROVE  Enough
  BY <1>s DEF NoLostWakeup
<1>u. ASSUME NEW w \in Workers, tasks' = tasks, Looking' = Looking \cup {w},
             w \notin Looking, Notifying' = Notifying, Waiting # {}
      PROVE  Enough
  <2>1. Cardinality(Looking') = Cardinality(Looking) + 1
    BY <1>c, <1>u, FS_AddElement
  <2> QED BY <1>c, <1>u, <2>1 DEF NoLostWakeup
<1>z. ASSUME tasks' = <<>> PROVE Enough
  BY <1>d, <1>e, <1>z
<1>1. ASSUME NEW c \in Callers, EnqueuePush(c) PROVE Enough
  <2>1. Notifying' = Notifying \cup {c} /\ c \notin Notifying
    BY <1>1, <1>t DEF EnqueuePush, Notifying, TypeOK, CallerPC
  <2>2. Looking' = Looking /\ Waiting' = Waiting
    BY <1>1 DEF EnqueuePush, Looking, Waiting
  <2>3. Cardinality(Notifying') = Cardinality(Notifying) + 1
    BY <1>c, <2>1, FS_AddElement
  <2>4. Len(tasks') = Len(tasks) + 1
    BY <1>1, <1>t, AppendProperties DEF EnqueuePush, TypeOK
  <2> QED BY <1>c, <2>2, <2>3, <2>4 DEF NoLostWakeup
<1>2. ASSUME NEW c \in Callers, EnqueueNotify(c) PROVE Enough
  <2>1. Waiting # {}
    BY <1>2 DEF EnqueueNotify, WakeOne, Waiting
  <2>2. PICK w \in Waiting : wpc' = [wpc EXCEPT ![w] = "lock"]
    BY <1>2, <2>1 DEF EnqueueNotify, WakeOne
  <2>3. Looking' = Looking \cup {w} /\ w \notin Looking
    BY <1>t, <2>2 DEF Looking, Waiting, TypeOK
  <2>4. Notifying' = Notifying \ {c} /\ c \in Notifying
    BY <1>2, <1>t DEF EnqueueNotify, Notifying, TypeOK
  <2>5. Cardinality(Looking') = Cardinality(Looking) + 1
    BY <1>c, <2>3, FS_AddElement
  <2>6. Cardinality(Notifying') = Cardinality(Notifying) - 1
    BY <1>c, <2>4, FS_RemoveElement
  <2> QED BY <1>2, <1>c, <2>1, <2>5, <2>6 DEF NoLostWakeup, EnqueueNotify
<1>3. ASSUME NEW w \in Workers, WorkerLock(w) PROVE Enough
  <2>1. tasks' = tasks /\ Looking' = Looking /\ Notifying' = Notifying /\ Waiting' = Waiting
    BY <1>3, <1>t DEF WorkerLock, Looking, Notifying, Waiting, TypeOK
  <2> QED BY <1>s, <2>1
<1>4. ASSUME NEW w \in Workers, WorkerSleep(w) \/ WorkerWait(w) \/ WorkerExit(w) PROVE Enough
  BY <1>4, <1>z DEF WorkerSleep, WorkerWait, WorkerExit, SafeInv, StopInv
<1>5. ASSUME NEW w \in Workers, WorkerSpurious(w) \/ WorkerRun(w) PROVE Enough
  <2>1. /\ tasks' = tasks /\ Looking' = Looking \cup {w} /\ w \notin Looking
        /\ Notifying' = Notifying /\ Waiting' \subseteq Waiting
    BY <1>5, <1>t DEF WorkerSpurious, WorkerRun, Looking, Notifying, Waiting, TypeOK
  <2> QED BY <1>u, <2>1
<1>6. ASSUME NEW w \in Workers, WorkerPop(w) PROVE Enough
  <2>1. Looking' = Looking \ {w} /\ w \in Looking /\ Notifying' = Notifying /\ Waiting' = Waiting
    BY <1>6, <1>t DEF WorkerPop, Looking, Notifying, Waiting, TypeOK
  <2>2. Cardinality(Looking') = Cardinality(Looking) - 1
    BY <1>c, <2>1, FS_RemoveElement
  <2>3. Len(tasks') = Len(tasks) - 1
    BY <1>6, <1>t, HeadTailProperties DEF WorkerPop, TypeOK
  <2> QED BY <1>c, <2>1, <2>2, <2>3 DEF NoLostWakeup
<1>7. CASE DtorNotify
  BY <1>7, <1>t DEF DtorNotify, WakeAll, Waiting, TypeOK
<1>8. CASE DtorEnter \/ DtorStop \/ DtorJoin \/ Gone \/ UNCHANGED vars
  <2>1. tasks' = tasks /\ Looking' = Looking /\ Notifying' = Notifying /\ Waiting' = Waiting
    BY <1>8 DEF DtorEnter, DtorStop, DtorJoin, Gone, vars, Looking, Notifying, Waiting
  <2> QED BY <1>s, <2>1
<1> QED BY <1>1, <1>2, <1>3, <1>4, <1>5, <1>6, <1>7, <1>8 DEF Next, WorkerStep

(* While a worker sleeps, every queued task has a worker or a notification *)
(* on its way: a wakeup is never lost between enqueue() and cv_.wait.      *)
THEOREM WakeupsAreNotLost == Spec => []NoLostWakeup
<1>1. Init => NoLostWakeup
  BY DEF Init, NoLostWakeup, Waiting
<1>2. Spec => []SafeInv
  BY InitSafe, SafeStep, PTL DEF Spec
<1>3. SafeInv /\ NoLostWakeup /\ [Next]_vars => NoLostWakeup'
  BY WakeupStep
<1> QED BY <1>1, <1>2, <1>3, PTL DEF Spec

-----------------------------------------------------------------------------
(* Every step of the pool is a step of the task queue or leaves it alone.  *)
LEMMA PoolStepRefines == SafeInv /\ SafeInv' /\ [Next]_vars => [TQ!Next]_(TQ!vars)
<1> SUFFICES ASSUME SafeInv, SafeInv', [Next]_vars PROVE [TQ!Next]_(TQ!vars)
  OBVIOUS
<1> USE DEF TQ!vars
<1>t. /\ TypeOK /\ ExactlyOnce /\ ExactlyOnce' /\ TypeOK'
      /\ Len(tasks) \in Nat /\ Len(tasks') \in Nat
  BY LenProperties DEF SafeInv, TypeOK
<1>s. ASSUME UNCHANGED <<tasks, submitted, done, Phase>> PROVE [TQ!Next]_(TQ!vars)
  BY <1>s DEF Started
<1>1. ASSUME NEW c \in Callers, EnqueuePush(c) PROVE TQ!Submit
  <2>1. Started' = Started
    BY <1>1, <1>t, AppendProperties DEF EnqueuePush, Started, TypeOK
  <2> QED BY <1>1, <2>1 DEF EnqueuePush, TQ!Submit, Phase
<1>2. ASSUME NEW w \in Workers, WorkerPop(w) PROVE TQ!Start
  <2>1. Len(tasks') = Len(tasks) - 1 /\ Len(tasks) >= 1
    BY <1>2, <1>t, HeadTailProperties, EmptySeq DEF WorkerPop, TypeOK
  <2>2. Started' = Started + 1 /\ Started < submitted
    BY <1>2, <1>t, <2>1 DEF WorkerPop, Started, TypeOK
  <2>3. dpc # "gone"
    BY <1>2 DEF WorkerPop, SafeInv, StopInv
  <2> QED BY <1>2, <2>2, <2>3 DEF WorkerPop, TQ!Start, Phase
<1>3. ASSUME NEW w \in Workers, WorkerRun(w) PROVE TQ!Finish
  <2>1. job[w] \in 1..Started /\ job[w] \notin done
    BY <1>3, <1>t DEF WorkerRun, ExactlyOnce, Running
  <2>2. dpc # "gone"
    BY <1>3 DEF WorkerRun, SafeInv, StopInv
  <2> QED BY <1>3, <2>1, <2>2 DEF WorkerRun, TQ!Finish, TQ!Running, Phase, Started
<1>4. CASE DtorEnter
  BY <1>4 DEF DtorEnter, TQ!Next, TQ!Close, Phase, Started
<1>5. CASE DtorJoin
  <2>1. done = 1..submitted
    BY <1>5, ExitedDrained DEF DtorJoin
  <2> QED BY <1>5, <2>1 DEF DtorJoin, TQ!Next, TQ!Gone, Phase, Started
<1>6. CASE DtorStop \/ DtorNotify \/ Gone \/ UNCHANGED vars
  BY <1>6, <1>s DEF DtorStop, DtorNotify, Gone, vars, Phase
<1>7. ASSUME NEW w \in Workers,
             \/ WorkerLock(w) \/ WorkerSleep(w) \/ WorkerWait(w)
             \/ WorkerExit(w) \/ WorkerSpurious(w)
      PROVE  [TQ!Next]_(TQ!vars)
  BY <1>7, <1>s DEF WorkerLock, WorkerSleep, WorkerWait, WorkerExit, WorkerSpurious, Phase
<1>8. ASSUME NEW c \in Callers, EnqueueNotify(c) PROVE [TQ!Next]_(TQ!vars)
  BY <1>8, <1>s DEF EnqueueNotify, Phase
<1> QED BY <1>1, <1>2, <1>3, <1>4, <1>5, <1>6, <1>7, <1>8 DEF Next, WorkerStep, TQ!Next

(* ThreadPool implements TaskQueue, the queue its callers rely on.         *)
THEOREM PoolImplementsTaskQueue == Spec => ImplementsTaskQueue
<1>1. Init => TQ!Init
  <2>1. Len(<<>>) = 0
    BY EmptySeq
  <2>2. ASSUME Init PROVE Started = 0
    <3>1. submitted = 0 /\ Len(tasks) = 0
      BY <2>1, <2>2, Zenon DEF Init
    <3> QED BY <3>1 DEF Started
  <2>3. Init => Phase = "open"
    BY DEF Init, Phase
  <2> QED BY <2>2, <2>3, Zenon DEF Init, TQ!Init
<1>2. Spec => []SafeInv
  BY InitSafe, SafeStep, PTL DEF Spec
<1>3. SafeInv /\ SafeInv' /\ [Next]_vars => [TQ!Next]_(TQ!vars)
  BY PoolStepRefines
<1> QED BY <1>1, <1>2, <1>3, PTL DEF Spec, TQ!Spec, ImplementsTaskQueue
=============================================================================
