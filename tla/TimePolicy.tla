----------------------------- MODULE TimePolicy ------------------------------
(***************************************************************************)
(* cache/policy/time_policy.cc: blocks expire ttlSeconds_ after their last *)
(* touch.  The clock counts Ticks to the second: ages are cut to whole     *)
(* seconds before they are compared.  The policy has no thread of its own: *)
(* a block leaves when somebody calls evict().                             *)
(***************************************************************************)
EXTENDS Integers, FiniteSets

CONSTANTS
    Ids, NoId,    \* block numbers, and SIZE_MAX
    Ttls,         \* the values of ttlSeconds_ to be checked
    Ticks,
    MaxTime       \* bound: the clock

ASSUME ClockAssumption == Ticks \in Nat \ {0} /\ Ttls \subseteq Nat /\ MaxTime \in Nat
ASSUME IdAssumption == NoId \notin Ids /\ "none" \notin Ids

VARIABLES
    ttlSeconds, timestamps, now,
    ret,        \* what the last call returned: a block, NoId, or "none"
    used,       \* history: the last touch of each block, -1 before the first
    swept       \* history: the clock when evict() last answered SIZE_MAX, or -1

vars == <<ttlSeconds, timestamps, now, ret, used, swept>>

Init ==
    /\ ttlSeconds \in Ttls
    /\ timestamps = [i \in {} |-> 0]
    /\ now = 0 /\ ret = "none"
    /\ used = [i \in Ids |-> -1] /\ swept = -1

Advance ==
    /\ now < MaxTime /\ now' = now + 1
    /\ UNCHANGED <<ttlSeconds, timestamps, ret, used, swept>>

\* Mutant: what is stored is the end of the block's time.
touchedDeadline(i) ==
    [j \in DOMAIN timestamps \cup {i} |->
        IF j = i THEN now + ttlSeconds * Ticks ELSE timestamps[j]]

touched(i) ==
    [j \in DOMAIN timestamps \cup {i} |-> IF j = i THEN now ELSE timestamps[j]]

touch(i) ==
    /\ timestamps' = touched(i)
    /\ used' = [used EXCEPT ![i] = now]
    /\ ret' = "none" /\ UNCHANGED <<ttlSeconds, now, swept>>

erased(i) == [j \in DOMAIN timestamps \ {i} |-> timestamps[j]]

remove(i) ==
    /\ timestamps' = erased(i)
    /\ ret' = "none" /\ UNCHANGED <<ttlSeconds, now, used, swept>>

\* Mutant: the age is rounded up.
ExpiredRounded == {i \in DOMAIN timestamps : (now - timestamps[i] + Ticks - 1) \div Ticks >= ttlSeconds}

\* Mutant: a block expires when it is older than the limit.
ExpiredLater == {i \in DOMAIN timestamps : (now - timestamps[i]) \div Ticks > ttlSeconds}

Expired == {i \in DOMAIN timestamps : (now - timestamps[i]) \div Ticks >= ttlSeconds}

\* The first expired block in hash order, which may be any of them.
evict ==
    /\ \/ \E i \in Expired : timestamps' = erased(i) /\ ret' = i /\ UNCHANGED swept
       \/ Expired = {} /\ ret' = NoId /\ swept' = now /\ UNCHANGED timestamps
    /\ UNCHANGED <<ttlSeconds, now, used>>

Next == Advance \/ evict \/ \E i \in Ids : touch(i) \/ remove(i)

Spec == Init /\ [][Next]_vars

-----------------------------------------------------------------------------
(* Types; a time that is tracked has passed. *)
TypeOK ==
    /\ ttlSeconds \in Ttls /\ now \in 0..MaxTime
    /\ DOMAIN timestamps \subseteq Ids
    /\ \A i \in DOMAIN timestamps : timestamps[i] \in 0..now
    /\ ret \in Ids \cup {NoId, "none"}
    /\ used \in [Ids -> -1..now]
    /\ swept \in -1..now

(* No block is given up before a whole ttl has passed since its last touch,*)
(* counted in clock ticks: cutting the age to seconds never makes a block  *)
(* older, and touching a block again renews it (time_policy.cc:7, 18-19).  *)
NeverTooEarly ==
    [][(ret' \in Ids /\ ret' \notin DOMAIN timestamps')
            => now - used[ret'] >= ttlSeconds * Ticks]_vars

(* A caller that asks until evict() answers SIZE_MAX has cleared everything*)
(* that had expired: at that moment every block still tracked was touched  *)
(* less than a ttl before, whatever was touched, removed and given up in   *)
(* between (time_policy.cc:15-27).                                         *)
SweepIsComplete ==
    \A i \in DOMAIN timestamps :
        swept >= 0 /\ used[i] < swept => swept - used[i] < ttlSeconds * Ticks
=============================================================================
