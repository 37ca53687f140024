-------------------------- MODULE TimePolicyProofs ---------------------------
(***************************************************************************)
(* The time policy's properties, for any blocks, limits, clock rates and   *)
(* lengths of the run.                                                     *)
(***************************************************************************)
EXTENDS TimePolicy, TLAPS

\* The recorded time of a tracked block is that of its last touch.
TimesAreTouches == \A i \in DOMAIN timestamps : timestamps[i] = used[i]

\* The block that was given up last had expired, and still has.
GivenUpWasOld ==
    ret \in Ids /\ ret \notin DOMAIN timestamps => now - used[ret] >= ttlSeconds * Ticks

IInv == TypeOK /\ TimesAreTouches /\ GivenUpWasOld /\ SweepIsComplete

(* Comparing whole seconds is comparing ticks (time_policy.cc:18-19). *)
LEMMA WholeSeconds ==
    ASSUME NEW a \in Int, NEW n \in Nat \ {0}, NEW k \in Nat
    PROVE  (a \div n >= k) <=> (a >= k * n)
  <1>1. a \div n \in Int /\ a % n \in 0..(n - 1) /\ a = n * (a \div n) + (a % n)
    <2>1. a \div n \in Int  BY SMT
    <2>2. a % n \in 0..(n - 1)  BY SMT
    <2>3. a = n * (a \div n) + (a % n)  BY SMT
    <2> QED  BY <2>1, <2>2, <2>3
  <1> DEFINE q == a \div n
             r == a % n
  <1> HIDE DEF q, r
  <1>2. q \in Int /\ r \in 0..(n - 1) /\ a = n * q + r
    BY <1>1 DEF q, r
  <1>3. CASE q >= k
    <2>1. n * q >= n * k  BY <1>2, <1>3, SMT
    <2>2. a >= k * n  BY <1>2, <2>1, SMT
    <2> QED  BY <1>3, <2>2 DEF q
  <1>4. CASE ~(q >= k)
    <2>1. q + 1 <= k  BY <1>2, <1>4, SMT
    <2>2. n * (q + 1) <= n * k  BY <1>2, <2>1, SMT
    <2>3. n * (q + 1) = n * q + n  BY <1>2, SMT
    <2>4. a < k * n  BY <1>2, <2>2, <2>3, SMT
    <2> QED  BY <1>4, <2>4, SMT DEF q
  <1> QED  BY <1>3, <1>4

(* The blocks evict() takes for expired are the ones not touched for a     *)
(* whole limit (time_policy.cc:17-23).                                     *)
LEMMA ExpiredIsOld ==
    ASSUME TypeOK, TimesAreTouches, NEW i \in DOMAIN timestamps
    PROVE  /\ i \in Ids /\ used[i] \in Int /\ ttlSeconds * Ticks \in Int
           /\ i \in Expired <=> now - used[i] >= ttlSeconds * Ticks
  <1>1. /\ i \in Ids /\ used[i] = timestamps[i] /\ timestamps[i] \in Int /\ now \in Int
        /\ ttlSeconds \in Nat /\ Ticks \in Nat \ {0}
    BY ClockAssumption DEF TypeOK, TimesAreTouches
  <1>2. ttlSeconds * Ticks \in Int
    BY <1>1, SMT
  <1>3. now - timestamps[i] \in Int
    BY <1>1
  <1>4. ((now - timestamps[i]) \div Ticks >= ttlSeconds) <=> (now - timestamps[i] >= ttlSeconds * Ticks)
    BY <1>1, <1>3, WholeSeconds
  <1> QED  BY <1>1, <1>2, <1>4 DEF Expired

(* The invariant holds before the first call.                              *)
LEMMA InitEstablishesIInv == Init => IInv
  <1> SUFFICES ASSUME Init PROVE IInv
    OBVIOUS
  <1>1. DOMAIN timestamps = {} /\ ret \notin Ids
    BY IdAssumption DEF Init
  <1>2. TypeOK
    BY <1>1, ClockAssumption DEF Init, TypeOK
  <1> QED  BY <1>1, <1>2 DEF IInv, TimesAreTouches, GivenUpWasOld, SweepIsComplete

(* Every call and every tick of the clock keeps it.                        *)
LEMMA NextKeepsIInv == IInv /\ [Next]_vars => IInv'
  <1> SUFFICES ASSUME IInv, [Next]_vars PROVE IInv'
    OBVIOUS
  <1>0. /\ TypeOK /\ TimesAreTouches /\ GivenUpWasOld /\ SweepIsComplete
        /\ now \in Int /\ ttlSeconds \in Nat /\ Ticks \in Nat \ {0} /\ swept \in Int
        /\ \A i \in Ids : used[i] \in Int
    BY ClockAssumption DEF IInv, TypeOK
  <1>x. ttlSeconds * Ticks \in Int
    BY <1>0, SMT
  <1>1. CASE Advance
    <2>1. TypeOK'
      BY <1>0, <1>1, ClockAssumption DEF Advance, TypeOK
    <2>2. TimesAreTouches' /\ SweepIsComplete'
      BY <1>0, <1>1 DEF Advance, TimesAreTouches, SweepIsComplete
    <2>3. GivenUpWasOld'
      BY <1>0, <1>1, <1>x DEF Advance, GivenUpWasOld
    <2> QED  BY <2>1, <2>2, <2>3 DEF IInv
  <1>2. ASSUME NEW i \in Ids, touch(i)  PROVE IInv'
    <2>1. /\ DOMAIN timestamps' = DOMAIN timestamps \cup {i}
          /\ \A j \in DOMAIN timestamps' :
                timestamps'[j] = IF j = i THEN now ELSE timestamps[j]
      BY <1>2 DEF touch, touched
    <2>2. \A j \in Ids : used'[j] = IF j = i THEN now ELSE used[j]
      BY <1>0, <1>2 DEF touch, TypeOK
    <2>3. UNCHANGED <<ttlSeconds, now, swept>> /\ ret' = "none"
      BY <1>2 DEF touch
    <2>4. TypeOK'
      <3>1. DOMAIN timestamps' \subseteq Ids
        BY <1>0, <2>1 DEF TypeOK
      <3>2. \A j \in DOMAIN timestamps' : timestamps'[j] \in 0..now
        BY <1>0, <2>1 DEF TypeOK
      <3>3. used' \in [Ids -> -1..now]
        BY <1>0, <1>2 DEF TypeOK, touch
      <3> QED  BY <1>0, <2>3, <3>1, <3>2, <3>3 DEF TypeOK
    <2>5. TimesAreTouches'
      BY <1>0, <2>1, <2>2 DEF TimesAreTouches, TypeOK
    <2>6. GivenUpWasOld'
      BY <2>3, IdAssumption DEF GivenUpWasOld
    <2>7. SweepIsComplete'
      BY <1>0, <2>1, <2>2, <2>3 DEF SweepIsComplete, TypeOK
    <2> QED  BY <2>4, <2>5, <2>6, <2>7 DEF IInv
  <1>3. ASSUME NEW i \in Ids, remove(i)  PROVE IInv'
    <2>1. /\ DOMAIN timestamps' = DOMAIN timestamps \ {i}
          /\ \A j \in DOMAIN timestamps' : timestamps'[j] = timestamps[j]
      BY <1>3 DEF remove, erased
    <2>2. UNCHANGED <<ttlSeconds, now, used, swept>> /\ ret' = "none"
      BY <1>3 DEF remove
    <2>3. TypeOK'
      BY <1>0, <2>1, <2>2 DEF TypeOK
    <2>4. GivenUpWasOld'
      BY <2>2, IdAssumption DEF GivenUpWasOld
    <2>5. TimesAreTouches' /\ SweepIsComplete'
      BY <1>0, <2>1, <2>2 DEF TimesAreTouches, SweepIsComplete
    <2> QED  BY <2>3, <2>4, <2>5 DEF IInv
  <1>4. ASSUME NEW i \in Expired, timestamps' = erased(i), ret' = i,
               UNCHANGED <<swept, ttlSeconds, now, used>>
        PROVE  IInv'
    <2>1. /\ DOMAIN timestamps' = DOMAIN timestamps \ {i}
          /\ \A j \in DOMAIN timestamps' : timestamps'[j] = timestamps[j]
      BY <1>4 DEF erased
    <2>2. i \in DOMAIN timestamps
      BY <1>4 DEF Expired
    <2>3. i \in Ids /\ now - used[i] >= ttlSeconds * Ticks
      BY <1>0, <1>4, <2>2, ExpiredIsOld
    <2>4. TypeOK'
      BY <1>0, <1>4, <2>1, <2>3 DEF TypeOK
    <2>5. GivenUpWasOld'
      BY <1>4, <2>3 DEF GivenUpWasOld
    <2>6. TimesAreTouches' /\ SweepIsComplete'
      BY <1>0, <1>4, <2>1 DEF TimesAreTouches, SweepIsComplete
    <2> QED  BY <2>4, <2>5, <2>6 DEF IInv
  <1>5. ASSUME Expired = {}, ret' = NoId, swept' = now,
               UNCHANGED <<timestamps, ttlSeconds, now, used>>
        PROVE  IInv'
    <2>1. TypeOK'
      BY <1>0, <1>5 DEF TypeOK
    <2>2. GivenUpWasOld' /\ TimesAreTouches'
      BY <1>0, <1>5, IdAssumption DEF GivenUpWasOld, TimesAreTouches
    <2>3. SweepIsComplete'
      <3>1. \A i \in DOMAIN timestamps : now - used[i] < ttlSeconds * Ticks
        BY <1>0, <1>x, <1>5, ExpiredIsOld
      <3> QED  BY <1>5, <3>1 DEF SweepIsComplete
    <2> QED  BY <2>1, <2>2, <2>3 DEF IInv
  <1>6. CASE UNCHANGED vars
    BY <1>0, <1>6 DEF vars, IInv, TypeOK, TimesAreTouches, GivenUpWasOld, SweepIsComplete
  <1>7. evict => IInv'
    BY <1>4, <1>5 DEF evict
  <1> QED  BY <1>1, <1>2, <1>3, <1>6, <1>7 DEF Next

(* It is an invariant of the policy.                                       *)
LEMMA IInvHolds == Spec => []IInv
  BY InitEstablishesIInv, NextKeepsIInv, PTL DEF Spec

(* The policy's state is well typed, and no recorded time is in the future.*)
THEOREM TimeTypeCorrect == Spec => []TypeOK
  <1>1. IInv => TypeOK
    BY DEF IInv
  <1> QED  BY IInvHolds, <1>1, PTL

(* When evict() answers SIZE_MAX no expired block is left, whatever the    *)
(* limit and the resolution of the clock.                                  *)
THEOREM SweepsAreComplete == Spec => []SweepIsComplete
  <1>1. IInv => SweepIsComplete
    BY DEF IInv
  <1> QED  BY IInvHolds, <1>1, PTL

(* evict() gives no block up before its time.                              *)
THEOREM BlocksLiveTheirTime == Spec => NeverTooEarly
  <1> DEFINE Kept == (ret' \in Ids /\ ret' \notin DOMAIN timestamps')
                          => now - used[ret'] >= ttlSeconds * Ticks
  <1>1. IInv /\ [Next]_vars => [Kept]_vars
    <2> SUFFICES ASSUME IInv, Next PROVE Kept
      OBVIOUS
    <2>0. TypeOK /\ TimesAreTouches /\ GivenUpWasOld
      BY DEF IInv
    <2>1. CASE Advance
      BY <2>0, <2>1 DEF Advance, GivenUpWasOld
    <2>2. CASE \E i \in Ids : touch(i) \/ remove(i)
      BY <2>2, IdAssumption DEF touch, remove
    <2>3. ASSUME NEW i \in Expired, ret' = i  PROVE Kept
      BY <2>0, <2>3, ExpiredIsOld DEF Expired
    <2>4. CASE evict
      BY <2>3, <2>4, IdAssumption DEF evict
    <2> QED  BY <2>1, <2>2, <2>4 DEF Next
  <1> HIDE DEF Kept
  <1>2. Spec => [][Kept]_vars
    BY IInvHolds, <1>1, PTL DEF Spec
  <1> QED  BY <1>2 DEF NeverTooEarly, Kept
=============================================================================
