----------------------------- MODULE RateLimit ------------------------------
(***************************************************************************)
(* The fixed-window limiter of app/core/ratelimit.py over Redis.           *)
(*                                                                         *)
(* hit sends INCR, and, when the counter it made is 1, EXPIRE in a second  *)
(* command: other callers, the clock and the death of the caller come in   *)
(* between.  A counter with a ttl disappears when the ttl has run down.    *)
(***************************************************************************)
EXTENDS Integers, FiniteSets

CONSTANTS Hits,       \* calls of hit, each made once
          Keys,       \* the keys they count under
          Limit,      \* hits allowed per window
          Window,     \* length of the window in ticks
          MaxCrashes, \* bound: callers lost in a behaviour
          NoTtl,      \* a counter without a ttl, as TTL reports it
          NoKey       \* the key of a call that is not made yet

ASSUME LimitAssumption == Limit \in Nat /\ Window \in Nat \ {0}
ASSUME CrashAssumption == MaxCrashes \in Nat
ASSUME NoTtlAssumption == NoTtl \notin Nat
ASSUME NoKeyAssumption == NoKey \notin Keys

VARIABLES counter,  \* counter[k]: the value under k, 0 when there is none
          ttl,      \* ttl[k]: ticks until the counter disappears
          phase,    \* phase[h]: where call h is
          key,      \* key[h]: the key h counts under
          count,    \* count[h]: what INCR returned to h
          age,      \* age[h]: ticks since the INCR of h, at most Window
          crashes   \* callers lost so far

rlvars == <<counter, ttl, phase, key, count, age, crashes>>

RLInit ==
    /\ counter = [k \in Keys |-> 0]
    /\ ttl = [k \in Keys |-> NoTtl]
    /\ phase = [h \in Hits |-> "idle"]
    /\ key = [h \in Hits |-> NoKey]
    /\ count = [h \in Hits |-> 0]
    /\ age = [h \in Hits |-> 0]
    /\ crashes = 0

(* Mutant: the test for the first hit is off by one. *)
MustExpire_OffByOne(n) == n = 0

MustExpire(n) == n = 1

(* INCR: the first hit still has to set the ttl, any other has its answer. *)
Incr(h, k) ==
    /\ phase[h] = "idle"
    /\ counter' = [counter EXCEPT ![k] = @ + 1]
    /\ count' = [count EXCEPT ![h] = counter[k] + 1]
    /\ key' = [key EXCEPT ![h] = k]
    /\ phase' = [phase EXCEPT ![h] = IF MustExpire(counter[k] + 1)
                                          THEN "expire" ELSE "done"]
    /\ UNCHANGED <<ttl, age, crashes>>

(* EXPIRE does nothing when the counter is gone by now. *)
Expire(h) ==
    /\ phase[h] = "expire"
    /\ ttl' = IF counter[key[h]] > 0 THEN [ttl EXCEPT ![key[h]] = Window] ELSE ttl
    /\ phase' = [phase EXCEPT ![h] = "done"]
    /\ UNCHANGED <<counter, key, count, age, crashes>>

(* The caller, or its connection to Redis, dies between the two commands. *)
Crash(h) ==
    /\ phase[h] = "expire"
    /\ crashes < MaxCrashes
    /\ crashes' = crashes + 1
    /\ phase' = [phase EXCEPT ![h] = "lost"]
    /\ UNCHANGED <<counter, ttl, key, count, age>>

(* reset: DEL, which deletes the ttl with the counter.  The key has its whole
   budget again, so the hits made so far are aged out of the history. *)
Reset(k) ==
    /\ counter[k] > 0
    /\ counter' = [counter EXCEPT ![k] = 0]
    /\ ttl' = [ttl EXCEPT ![k] = NoTtl]
    /\ age' = [h \in Hits |-> IF key[h] = k THEN Window ELSE age[h]]
    /\ UNCHANGED <<phase, key, count, crashes>>

(* Mutant: the last tick is missed. *)
Remaining_OffByOne(t) == IF t = NoTtl THEN NoTtl ELSE t - 1

Remaining(t) == IF t \in {1, NoTtl} THEN NoTtl ELSE t - 1

(* One tick of Redis' clock; counters whose time is up are gone. *)
Tick ==
    /\ counter' = [k \in Keys |-> IF ttl[k] = 1 THEN 0 ELSE counter[k]]
    /\ ttl' = [k \in Keys |-> Remaining(ttl[k])]
    /\ age' = [h \in Hits |-> IF key[h] # NoKey /\ age[h] < Window
                                THEN age[h] + 1 ELSE age[h]]
    /\ UNCHANGED <<phase, key, count, crashes>>

RLNext ==
    \/ \E h \in Hits :
          \/ \E k \in Keys : Incr(h, k)
          \/ Expire(h)
          \/ Crash(h)
    \/ \E k \in Keys : Reset(k)
    \/ Tick

RLSpec == RLInit /\ [][RLNext]_rlvars

(* Redis' clock runs, and a caller that is not lost sends its EXPIRE. *)
RLFairSpec == RLSpec /\ WF_rlvars(Tick) /\ \A h \in Hits : WF_rlvars(Expire(h))

-----------------------------------------------------------------------------
(* Mutant: one hit too many. *)
Allowed_OffByOne(h) ==
    phase[h] \in {"expire", "done", "lost"} /\ count[h] <= Limit + 1

(* What hit returns: TRUE while the counter is within the limit. *)
Allowed(h) == phase[h] \in {"expire", "done", "lost"} /\ count[h] <= Limit

(* current: 0 when there is no counter. *)
Current(k) == counter[k]

(* The shape of every variable. *)
RLTypeOK ==
    /\ counter \in [Keys -> 0..Cardinality(Hits)]
    /\ ttl \in [Keys -> 1..Window \cup {NoTtl}]
    /\ phase \in [Hits -> {"idle", "expire", "done", "lost"}]
    /\ key \in [Hits -> Keys \cup {NoKey}]
    /\ count \in [Hits -> 0..Cardinality(Hits)]
    /\ age \in [Hits -> 0..Window]
    /\ crashes \in 0..MaxCrashes

(* Whatever the callers' timing, losses and resets, any stretch of time as
   long as the window admits at most twice the limit under one key: the worst
   a fixed window allows, at the seam between two counters. *)
AtMostTwiceTheLimit ==
    \A k \in Keys :
        Cardinality({h \in Hits : key[h] = k /\ Allowed(h) /\ age[h] < Window})
            <= 2 * Limit

(* The first hit sets the ttl: a counter has one, unless the caller that made
   it is just about to set it. *)
FirstHitSetsTtl ==
    \A k \in Keys : counter[k] > 0 =>
        \/ ttl[k] # NoTtl
        \/ \E h \in Hits : key[h] = k /\ phase[h] = "expire"

(* Resets, late EXPIREs and the clock never part a counter from its ttl: only
   a lost caller does. *)
CountersCarryTtl == crashes = 0 => FirstHitSetsTtl

(* No key stays denied: while no caller is lost, every counter disappears. *)
CountersExpire ==
    [](crashes = 0) => \A k \in Keys : Current(k) > 0 ~> Current(k) = 0
=============================================================================
