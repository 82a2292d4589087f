------------------------ MODULE WidgetSessionProofs -------------------------
(***************************************************************************)
(* The rate limiter and the widget endpoint on top of it, for every set of *)
(* callers, keys and tenants, every limit and every window.                *)
(***************************************************************************)
EXTENDS WidgetSession, FiniteSetTheorems, TLAPS

(* The shape of the limiter's variables, with no bound on the counters. *)
RLShape ==
    /\ counter \in [Keys -> Nat]
    /\ ttl \in [Keys -> 1..Window \cup {NoTtl}]
    /\ phase \in [Hits -> {"idle", "expire", "done", "lost"}]
    /\ key \in [Hits -> Keys \cup {NoKey}]
    /\ count \in [Hits -> Nat]
    /\ age \in [Hits -> 0..Window]
    /\ crashes \in 0..MaxCrashes
    /\ \A h \in Hits : phase[h] = "idle" <=> key[h] = NoKey

NoCounterNoTtl == \A k \in Keys : counter[k] = 0 => ttl[k] = NoTtl

LimiterInv == RLShape /\ NoCounterNoTtl /\ CountersCarryTtl

-----------------------------------------------------------------------------
(* Hits counted by one counter carry different numbers. *)
Numbered(S) ==
    /\ \A h \in S : count[h] >= 1
    /\ \A g, h \in S : count[g] = count[h] => g = h

(* The hits of a key that are younger than the window were counted by the present
   counter or by the one before it; and when the present one disappears, those of
   the one before are out of the window. *)
Seam(k, cur, old) ==
    /\ \A h \in cur \cup old : key[h] = k
    /\ \A h \in Hits : key[h] = k /\ age[h] < Window => h \in cur \cup old
    /\ Numbered(cur) /\ Numbered(old)
    /\ \A h \in cur : count[h] <= counter[k]
    /\ ttl[k] # NoTtl => \A h \in old : age[h] + ttl[k] >= Window

TwoCounters ==
    \A k \in Keys : \E cur, old \in SUBSET Hits : Seam(k, cur, old)

(* Every caller counts once. *)
Called == {h \in Hits : phase[h] # "idle"}

CountsCallers ==
    /\ \A k \in Keys : counter[k] <= Cardinality(Called)
    /\ \A h \in Hits : count[h] <= Cardinality(Called)

-----------------------------------------------------------------------------
WShape ==
    /\ at \in [Requests -> Running \cup {"new", "refused", "failed", "minted"}]
    /\ asked \in [Requests -> Keys \cup {NoKey}]
    /\ origin \in [Requests -> Origins \cup {NoOrigin}]
    /\ active \subseteq Tenants
    /\ liveKeys \subseteq Keys
    /\ domains \in [Tenants -> SUBSET Domains]
    /\ minted \subseteq Requests
    /\ sawActive \in [Requests -> BOOLEAN]

(* A request counts under the key it asks with, once it is scoped, and goes on
   when it was within the limit. *)
CountedAsAsked ==
    \A r \in Requests :
        /\ at[r] # "new" => asked[r] \in Keys
        /\ at[r] \in {"new", "waiting", "keyed"} => phase[r] = "idle"
        /\ phase[r] # "idle" => key[r] = asked[r]
        /\ at[r] \in {"checked", "minted"} => phase[r] = "done" /\ count[r] <= Limit
        /\ r \in minted => at[r] = "minted"

(* A request passes the tenant check only while its tenant is active. *)
SawActiveTenant ==
    \A r \in Requests :
        /\ at[r] \in {"waiting", "keyed"} /\ TenantOf[asked[r]] \in active => sawActive[r]
        /\ at[r] \in {"scoped", "checked", "minted"} => sawActive[r]

RequestInv == WShape /\ CountedAsAsked /\ SawActiveTenant
-----------------------------------------------------------------------------
(* The limiter: a counter and its ttl. *)

LEMMA LimiterInit == RLInit => LimiterInv /\ TwoCounters
<1> SUFFICES ASSUME RLInit PROVE LimiterInv /\ TwoCounters
  OBVIOUS
<1>1. LimiterInv
  BY LimitAssumption, CrashAssumption
     DEF RLInit, LimiterInv, RLShape, NoCounterNoTtl, CountersCarryTtl, FirstHitSetsTtl
<1>2. ASSUME NEW k \in Keys PROVE Seam(k, {}, {})
  BY NoKeyAssumption DEF RLInit, Seam, Numbered
<1>3. TwoCounters
  BY <1>2 DEF TwoCounters
<1> QED
  BY <1>1, <1>3

LEMMA IncrLimiter ==
  ASSUME LimiterInv, NEW h \in Hits, NEW k \in Keys, Incr(h, k)
  PROVE  LimiterInv'
<1> USE NoKeyAssumption DEF LimiterInv, RLShape, Incr, MustExpire
<1>1. RLShape' /\ NoCounterNoTtl'
  BY DEF NoCounterNoTtl
<1>2. CountersCarryTtl'
  <2> SUFFICES ASSUME crashes = 0, NEW j \in Keys, counter'[j] > 0, ttl[j] = NoTtl
               PROVE  \E g \in Hits : key'[g] = j /\ phase'[g] = "expire"
    BY DEF CountersCarryTtl, FirstHitSetsTtl
  <2>1. CASE counter[j] > 0
    <3>1. PICK g \in Hits : key[g] = j /\ phase[g] = "expire"
      BY <2>1 DEF CountersCarryTtl, FirstHitSetsTtl
    <3>2. key'[g] = j /\ phase'[g] = "expire"
      BY <3>1
    <3> QED
      BY <3>2
  <2>2. CASE ~(counter[j] > 0)
    <3>1. j = k /\ counter[k] = 0
      BY <2>2
    <3>2. key'[h] = j /\ phase'[h] = "expire"
      BY <3>1
    <3> QED
      BY <3>2
  <2> QED
    BY <2>1, <2>2
<1> QED
  BY <1>1, <1>2

(* EXPIRE gives the counter its ttl; the witness of any other key stays. *)
LEMMA ExpireLimiter ==
  ASSUME LimiterInv, NEW h \in Hits, Expire(h)
  PROVE  LimiterInv'
<1> USE LimitAssumption, NoTtlAssumption, NoKeyAssumption DEF LimiterInv, RLShape, Expire
<1>0. key[h] \in Keys
  OBVIOUS
<1>1. RLShape' /\ NoCounterNoTtl'
  BY <1>0 DEF NoCounterNoTtl
<1>2. CountersCarryTtl'
  <2> SUFFICES ASSUME crashes = 0, NEW j \in Keys, counter[j] > 0, ttl'[j] = NoTtl
               PROVE  \E g \in Hits : key[g] = j /\ phase'[g] = "expire"
    BY DEF CountersCarryTtl, FirstHitSetsTtl
  <2>1. j # key[h]
    BY <1>0
  <2>2. PICK g \in Hits : key[g] = j /\ phase[g] = "expire"
    BY <1>0, <2>1 DEF CountersCarryTtl, FirstHitSetsTtl
  <2> QED
    BY <2>1, <2>2
<1> QED
  BY <1>1, <1>2

LEMMA CrashLimiter ==
  ASSUME LimiterInv, NEW h \in Hits, Crash(h)
  PROVE  LimiterInv'
BY NoKeyAssumption, CrashAssumption
   DEF LimiterInv, RLShape, Crash, NoCounterNoTtl, CountersCarryTtl

LEMMA ResetLimiter ==
  ASSUME LimiterInv, NEW k \in Keys, Reset(k)
  PROVE  LimiterInv'
<1> USE LimitAssumption DEF LimiterInv, RLShape, Reset
<1>1. RLShape' /\ NoCounterNoTtl'
  BY DEF NoCounterNoTtl
<1>2. CountersCarryTtl'
  BY DEF CountersCarryTtl, FirstHitSetsTtl
<1> QED
  BY <1>1, <1>2

LEMMA TickLimiter ==
  ASSUME LimiterInv, Tick
  PROVE  LimiterInv'
<1> USE LimitAssumption, NoTtlAssumption DEF LimiterInv, RLShape, Tick, Remaining
<1>1. RLShape' /\ NoCounterNoTtl'
  BY DEF NoCounterNoTtl
<1>2. CountersCarryTtl'
  BY DEF CountersCarryTtl, FirstHitSetsTtl
<1> QED
  BY <1>1, <1>2

LEMMA LimiterNext == LimiterInv /\ [RLNext]_rlvars => LimiterInv'
<1> SUFFICES ASSUME LimiterInv, [RLNext]_rlvars PROVE LimiterInv'
  OBVIOUS
<1>1. CASE UNCHANGED rlvars
  BY <1>1 DEF rlvars, LimiterInv, RLShape, NoCounterNoTtl, CountersCarryTtl, FirstHitSetsTtl
<1>2. CASE RLNext
  BY <1>2, IncrLimiter, ExpireLimiter, CrashLimiter, ResetLimiter, TickLimiter DEF RLNext
<1> QED
  BY <1>1, <1>2

-----------------------------------------------------------------------------
(* The limiter: two counters cover a window. *)

(* The number a new hit is given is not given before. *)
LEMMA IncrTwoCounters ==
  ASSUME LimiterInv, TwoCounters, NEW h \in Hits, NEW k \in Keys, Incr(h, k)
  PROVE  TwoCounters'
<1> USE NoKeyAssumption DEF LimiterInv, RLShape, Incr
<1> SUFFICES ASSUME NEW j \in Keys
             PROVE  \E cur, old \in SUBSET Hits : Seam(j, cur, old)'
  BY DEF TwoCounters
<1>0. key[h] = NoKey /\ key'[h] = k /\ count'[h] = counter[k] + 1
  OBVIOUS
<1>1. \A g \in Hits : g # h => key'[g] = key[g] /\ count'[g] = count[g]
  OBVIOUS
<1>2. PICK cur \in SUBSET Hits, old \in SUBSET Hits : Seam(j, cur, old)
  BY DEF TwoCounters
<1>3. h \notin cur \cup old
  BY <1>0, <1>2 DEF Seam
<1>4. CASE j # k
  <2>1. Seam(j, cur, old)'
    BY <1>0, <1>1, <1>2, <1>3, <1>4 DEF Seam, Numbered
  <2> QED
    BY <2>1
<1>5. CASE j = k
  <2> DEFINE new == cur \cup {h}
  <2>1. Numbered(old)' /\ \A g \in old : age'[g] = age[g]
    BY <1>1, <1>2, <1>3 DEF Seam, Numbered
  <2>2. Numbered(new)'
    <3>1. \A g \in cur : count'[g] = count[g] /\ count[g] <= counter[k] /\ count[g] \in Nat
      BY <1>1, <1>2, <1>3, <1>5 DEF Seam
    <3> QED
      BY <1>0, <1>2, <3>1 DEF Seam, Numbered
  <2>3. \A g \in new : count'[g] <= counter'[k]
    BY <1>0, <1>1, <1>2, <1>3, <1>5 DEF Seam
  <2>4. Seam(k, new, old)'
    BY <1>0, <1>1, <1>2, <1>3, <1>5, <2>1, <2>2, <2>3 DEF Seam
  <2> QED
    BY <1>5, <2>4
<1> QED
  BY <1>4, <1>5

(* A counter that is given its ttl now outlives what is younger than the window. *)
LEMMA ExpireTwoCounters ==
  ASSUME LimiterInv, TwoCounters, NEW h \in Hits, Expire(h)
  PROVE  TwoCounters'
<1> USE LimitAssumption, NoTtlAssumption DEF LimiterInv, RLShape, Expire
<1> SUFFICES ASSUME NEW j \in Keys
             PROVE  \E cur, old \in SUBSET Hits : Seam(j, cur, old)'
  BY DEF TwoCounters
<1>1. PICK cur \in SUBSET Hits, old \in SUBSET Hits : Seam(j, cur, old)
  BY DEF TwoCounters
<1>2. ttl'[j] \in {ttl[j], Window}
  OBVIOUS
<1>3. \A g \in old : age[g] + Window >= Window
  OBVIOUS
<1>4. Seam(j, cur, old)'
  BY <1>1, <1>2, <1>3 DEF Seam, Numbered
<1> QED
  BY <1>4

LEMMA CrashTwoCounters ==
  ASSUME TwoCounters, NEW h \in Hits, Crash(h)
  PROVE  TwoCounters'
BY DEF TwoCounters, Seam, Numbered, Crash

(* After DEL the key starts afresh; the others do not notice. *)
LEMMA ResetTwoCounters ==
  ASSUME LimiterInv, TwoCounters, NEW k \in Keys, Reset(k)
  PROVE  TwoCounters'
<1> USE LimitAssumption DEF LimiterInv, RLShape, Reset
<1> SUFFICES ASSUME NEW j \in Keys
             PROVE  \E cur, old \in SUBSET Hits : Seam(j, cur, old)'
  BY DEF TwoCounters
<1>1. CASE j = k
  <2>1. \A g \in Hits : key[g] = k => age'[g] = Window
    OBVIOUS
  <2>2. Seam(k, {}, {})'
    BY <2>1 DEF Seam, Numbered
  <2> QED
    BY <1>1, <2>2
<1>2. CASE j # k
  <2>1. PICK cur \in SUBSET Hits, old \in SUBSET Hits : Seam(j, cur, old)
    BY DEF TwoCounters
  <2>2. \A g \in Hits : key[g] = j => age'[g] = age[g]
    BY <1>2
  <2>3. counter'[j] = counter[j] /\ ttl'[j] = ttl[j]
    BY <1>2
  <2>4. Seam(j, cur, old)'
    BY <2>1, <2>2, <2>3 DEF Seam, Numbered
  <2> QED
    BY <2>4
<1> QED
  BY <1>1, <1>2

(* With the present counter goes the one before it. *)
LEMMA TickTwoCounters ==
  ASSUME LimiterInv, TwoCounters, Tick
  PROVE  TwoCounters'
<1> USE LimitAssumption, NoTtlAssumption, NoKeyAssumption DEF LimiterInv, RLShape, Tick
<1> SUFFICES ASSUME NEW j \in Keys
             PROVE  \E cur, old \in SUBSET Hits : Seam(j, cur, old)'
  BY DEF TwoCounters
<1>1. PICK cur \in SUBSET Hits, old \in SUBSET Hits : Seam(j, cur, old)
  BY DEF TwoCounters
<1>2. \A g \in Hits : key[g] = j =>
        age'[g] = IF age[g] < Window THEN age[g] + 1 ELSE age[g]
  OBVIOUS
<1>3. \A g \in Hits : key[g] = j /\ age'[g] < Window => age[g] < Window
  BY <1>2
<1>4. \A S \in SUBSET Hits : Numbered(S) => Numbered(S)'
  BY DEF Numbered
<1>5. CASE ttl[j] = 1
  <2>1. ttl'[j] = NoTtl
    BY <1>5 DEF Remaining
  <2>2. \A g \in old : ~(age'[g] < Window)
    BY <1>1, <1>2, <1>5 DEF Seam
  <2>3. Numbered({})' /\ Numbered(cur)'
    BY <1>1, <1>4 DEF Seam, Numbered
  <2>4. \A g \in Hits : key[g] = j /\ age'[g] < Window => g \in cur
    BY <1>1, <1>3, <2>2 DEF Seam
  <2>5. Seam(j, {}, cur)'
    BY <1>1, <2>1, <2>3, <2>4 DEF Seam
  <2> QED
    BY <2>5
<1>6. CASE ttl[j] # 1
  <2>1. counter'[j] = counter[j]
    BY <1>6
  <2>2. ttl'[j] # NoTtl => ttl[j] # NoTtl /\ ttl'[j] = ttl[j] - 1 /\ ttl[j] \in 2..Window
    BY <1>6 DEF Remaining
  <2>3. ttl'[j] # NoTtl => \A g \in old : age'[g] + ttl'[j] >= Window
    BY <1>1, <1>2, <2>2 DEF Seam
  <2>4. Numbered(cur)' /\ Numbered(old)'
    BY <1>1, <1>4 DEF Seam
  <2>5. Seam(j, cur, old)'
    BY <1>1, <1>3, <2>1, <2>3, <2>4 DEF Seam
  <2> QED
    BY <2>5
<1> QED
  BY <1>5, <1>6

LEMMA TwoCountersNext ==
  LimiterInv /\ TwoCounters /\ [RLNext]_rlvars => TwoCounters'
<1> SUFFICES ASSUME LimiterInv, TwoCounters, [RLNext]_rlvars PROVE TwoCounters'
  OBVIOUS
<1>1. CASE UNCHANGED rlvars
  BY <1>1 DEF rlvars, TwoCounters, Seam, Numbered
<1>2. CASE RLNext
  BY <1>2, IncrTwoCounters, ExpireTwoCounters, CrashTwoCounters, ResetTwoCounters,
     TickTwoCounters DEF RLNext
<1> QED
  BY <1>1, <1>2

LEMMA LimiterHolds == RLSpec => [](LimiterInv /\ TwoCounters)
<1> QED
  BY LimiterInit, LimiterNext, TwoCountersNext, PTL DEF RLSpec

(* A counter lets at most Limit of its hits through. *)
LEMMA LimitOfOneCounter ==
  ASSUME RLShape, NEW S \in SUBSET Hits, Numbered(S)
  PROVE  LET A == {h \in S : count[h] <= Limit}
         IN  IsFiniteSet(A) /\ Cardinality(A) \in Nat /\ Cardinality(A) <= Limit
<1> DEFINE A == {h \in S : count[h] <= Limit}
           f == [h \in A |-> count[h]]
<1>1. f \in Injection(A, 1..Limit)
  <2>1. f \in [A -> 1..Limit]
    BY LimitAssumption DEF RLShape, Numbered
  <2>2. \A g, h \in A : f[g] = f[h] => g = h
    BY DEF Numbered
  <2> QED
    BY <2>1, <2>2 DEF Injection, IsInjective
<1>2. IsFiniteSet(1..Limit) /\ Cardinality(1..Limit) = Limit
  BY LimitAssumption, FS_Interval
<1>3. IsFiniteSet(A) /\ Cardinality(A) <= Cardinality(1..Limit)
  BY <1>1, <1>2, FS_Injection
<1> QED
  BY <1>2, <1>3, FS_CardinalityType

(* Any set of allowed young hits of a key is of twice the limit at most. *)
LEMMA TwoCountersBound ==
  ASSUME RLShape, TwoCounters, NEW k \in Keys, NEW M,
         \A h \in M : h \in Hits /\ key[h] = k /\ Allowed(h) /\ age[h] < Window
  PROVE  Cardinality(M) <= 2 * Limit
<1>1. PICK cur \in SUBSET Hits, old \in SUBSET Hits : Seam(k, cur, old)
  BY DEF TwoCounters
<1> DEFINE A == {h \in cur : count[h] <= Limit}
           B == {h \in old : count[h] <= Limit}
<1>2. /\ IsFiniteSet(A) /\ Cardinality(A) \in Nat /\ Cardinality(A) <= Limit
      /\ IsFiniteSet(B) /\ Cardinality(B) \in Nat /\ Cardinality(B) <= Limit
  BY <1>1, LimitOfOneCounter DEF Seam
<1>3. M \subseteq A \cup B
  BY <1>1 DEF Seam, Allowed
<1> HIDE DEF A, B
<1>4. /\ IsFiniteSet(A \cup B) /\ Cardinality(A \cap B) \in Nat
      /\ Cardinality(A \cup B) = Cardinality(A) + Cardinality(B) - Cardinality(A \cap B)
  BY <1>2, FS_Union, FS_Intersection, FS_CardinalityType
<1>5. Cardinality(M) \in Nat /\ Cardinality(M) <= Cardinality(A \cup B)
  BY <1>3, <1>4, FS_Subset, FS_CardinalityType
<1> QED
  BY <1>2, <1>4, <1>5, LimitAssumption

(* hit of app/core/ratelimit.py admits at most twice the limit in any stretch as
   long as the window, whoever is lost between INCR and EXPIRE, whenever a late
   EXPIRE arrives and whenever a key is reset. *)
THEOREM LimiterAdmitsTwiceAtMost == RLSpec => []AtMostTwiceTheLimit
<1>1. LimiterInv /\ TwoCounters => AtMostTwiceTheLimit
  BY TwoCountersBound DEF LimiterInv, AtMostTwiceTheLimit
<1> QED
  BY <1>1, LimiterHolds, PTL

(* Only a lost caller leaves a counter without the ttl that ends it. *)
THEOREM OnlyLossPartsCounterFromTtl == RLSpec => []CountersCarryTtl
<1>1. LimiterInv => CountersCarryTtl
  BY DEF LimiterInv
<1> QED
  BY <1>1, LimiterHolds, PTL

-----------------------------------------------------------------------------
(* The limiter: finitely many callers. *)

LEMMA CountsCallersNext ==
  ASSUME IsFiniteSet(Hits), RLShape, CountsCallers, [RLNext]_rlvars
  PROVE  CountsCallers'
<1> USE DEF RLShape
<1>0. Cardinality(Called) \in Nat /\ IsFiniteSet(Called)
  BY FS_Subset, FS_CardinalityType, Called \in SUBSET Hits DEF Called
<1>1. ASSUME Called' = Called, count' = count,
             \A k \in Keys : counter'[k] \in {counter[k], 0}
      PROVE  CountsCallers'
  BY <1>0, <1>1 DEF CountsCallers
<1>2. ASSUME NEW h \in Hits, NEW k \in Keys, Incr(h, k) PROVE CountsCallers'
  <2>1. h \notin Called /\ Called' = Called \cup {h}
    BY <1>2 DEF Called, Incr, MustExpire
  <2>2. Cardinality(Called') = Cardinality(Called) + 1
    BY <1>0, <2>1, FS_AddElement
  <2>3. ASSUME NEW j \in Keys PROVE counter'[j] <= Cardinality(Called')
    BY <1>0, <1>2, <2>2 DEF Incr, CountsCallers
  <2>4. ASSUME NEW g \in Hits PROVE count'[g] <= Cardinality(Called')
    BY <1>0, <1>2, <2>2 DEF Incr, CountsCallers
  <2> QED
    BY <2>3, <2>4 DEF CountsCallers
<1>3. ASSUME NEW h \in Hits, Expire(h) \/ Crash(h) PROVE CountsCallers'
  BY <1>1, <1>3 DEF Called, Expire, Crash
<1>4. ASSUME NEW k \in Keys, Reset(k) PROVE CountsCallers'
  BY <1>1, <1>4 DEF Called, Reset
<1>5. CASE Tick
  BY <1>1, <1>5 DEF Called, Tick
<1>6. CASE UNCHANGED rlvars
  BY <1>1, <1>6 DEF Called, rlvars
<1> QED
  BY <1>2, <1>3, <1>4, <1>5, <1>6 DEF RLNext

(* No counter runs past the number of callers, and every variable of the limiter
   keeps its shape. *)
THEOREM LimiterTypeCorrect ==
  ASSUME IsFiniteSet(Hits)
  PROVE  RLSpec => []RLTypeOK
<1>1. RLInit => CountsCallers
  <2>1. RLInit => Called = {}
    BY DEF RLInit, Called
  <2> QED
    BY <2>1, FS_EmptySet DEF RLInit, CountsCallers
<1>2. LimiterInv /\ CountsCallers /\ [RLNext]_rlvars => CountsCallers'
  BY CountsCallersNext DEF LimiterInv
<1>3. LimiterInv /\ CountsCallers => RLTypeOK
  <2> SUFFICES ASSUME LimiterInv, CountsCallers PROVE RLTypeOK
    OBVIOUS
  <2>1. Called \in SUBSET Hits
    BY DEF Called
  <2>2. /\ Cardinality(Called) \in Nat /\ Cardinality(Hits) \in Nat
        /\ Cardinality(Called) <= Cardinality(Hits)
    BY <2>1, FS_Subset, FS_CardinalityType
  <2>3. counter \in [Keys -> 0..Cardinality(Hits)]
    BY <2>2 DEF LimiterInv, RLShape, CountsCallers
  <2>4. count \in [Hits -> 0..Cardinality(Hits)]
    BY <2>2 DEF LimiterInv, RLShape, CountsCallers
  <2> QED
    BY <2>3, <2>4 DEF LimiterInv, RLShape, RLTypeOK
<1> QED
  BY <1>1, <1>2, <1>3, LimiterHolds, PTL DEF RLSpec

-----------------------------------------------------------------------------
(* The endpoint *)

LEMMA RequestInit == WInit => RequestInv
BY DEF WInit, WStart, RLInit, RequestInv, WShape, CountedAsAsked, SawActiveTenant, Requests, Running

(* Of the limiter a step of the endpoint takes one command or none. *)
LEMMA WidgetStepHits ==
  RequestInv /\ [WNext]_vars => [RLNext]_rlvars
<1> SUFFICES ASSUME RequestInv, [WNext]_vars PROVE RLNext \/ UNCHANGED rlvars
  OBVIOUS
<1> USE DEF Requests
<1>1. ASSUME NEW r \in Requests, CountHit(r) PROVE RLNext
  BY <1>1, NoKeyAssumption DEF RequestInv, CountedAsAsked, CountHit, RLNext
<1>2. ASSUME NEW r \in Requests, SetTtl(r) PROVE RLNext
  <2>1. r \in Hits /\ Expire(r)
    BY <1>2 DEF SetTtl
  <2> QED
    BY <2>1 DEF RLNext
<1>3. ASSUME NEW r \in Requests, Fail(r) PROVE RLNext \/ UNCHANGED rlvars
  <2>1. r \in Hits /\ (Crash(r) \/ UNCHANGED rlvars)
    BY <1>3 DEF Fail
  <2> QED
    BY <2>1 DEF RLNext
<1>4. CASE Time
  BY <1>4 DEF Time, RLNext
<1>5. ASSUME NEW r \in Requests,
             \/ \E k \in Keys, o \in Origins \cup {NoOrigin} : Arrive(r, k, o)
             \/ LookupKey(r) \/ PoolTimeout(r) \/ CheckTenant(r) \/ CheckOrigin(r) \/ Mint(r)
      PROVE  UNCHANGED rlvars
  BY <1>5 DEF Arrive, LookupKey, PoolTimeout, CheckTenant, CheckOrigin, Mint
<1>6. ASSUME \/ \E t \in Tenants : Suspend(t) \/ Reactivate(t)
             \/ \E k \in Keys : RetireKey(k)
      PROVE  UNCHANGED rlvars
  BY <1>6 DEF Suspend, Reactivate, RetireKey
<1> QED
  BY <1>1, <1>2, <1>3, <1>4, <1>5, <1>6 DEF WNext, vars

LEMMA ArriveStep ==
  ASSUME RequestInv, RLShape, NEW r \in Requests, NEW k \in Keys,
         NEW o \in Origins \cup {NoOrigin}, Arrive(r, k, o)
  PROVE  RequestInv'
<1> USE DEF RequestInv, Arrive, Answer, rlvars
<1>1. WShape'
  BY TenantOfAssumption DEF WShape, Running
<1>2. CountedAsAsked'
  BY DEF WShape, CountedAsAsked, Requests
<1>3. SawActiveTenant'
  BY DEF WShape, SawActiveTenant
<1> QED
  BY <1>1, <1>2, <1>3

(* The steps of a request before and after its hit. *)
LEMMA PassStep ==
  ASSUME RequestInv, RLShape, NEW r \in Requests,
         \/ LookupKey(r) \/ PoolTimeout(r) \/ CheckTenant(r) \/ CheckOrigin(r) \/ Mint(r)
  PROVE  RequestInv'
<1> USE DEF RequestInv, LookupKey, PoolTimeout, CheckTenant, CheckOrigin, Mint, Answer, rlvars,
    Requests
<1>1. WShape'
  BY DEF WShape, Running
<1>2. CountedAsAsked'
  <2> SUFFICES ASSUME NEW q \in Requests
               PROVE  /\ at'[q] # "new" => asked'[q] \in Keys
                      /\ at'[q] \in {"new", "waiting", "keyed"} => phase'[q] = "idle"
                      /\ phase'[q] # "idle" => key'[q] = asked'[q]
                      /\ at'[q] \in {"checked", "minted"} => phase'[q] = "done" /\ count'[q] <= Limit
                      /\ q \in minted' => at'[q] = "minted"
    BY DEF CountedAsAsked
  <2>1. CASE q # r
    BY <2>1 DEF WShape, CountedAsAsked
  <2>2. CASE q = r
    BY <2>2 DEF WShape, CountedAsAsked, Verdict, Allowed
  <2> QED
    BY <2>1, <2>2
<1>3. SawActiveTenant'
  <2> SUFFICES ASSUME NEW q \in Requests
               PROVE  /\ at'[q] \in {"waiting", "keyed"} /\ TenantOf[asked'[q]] \in active' => sawActive'[q]
                      /\ at'[q] \in {"scoped", "checked", "minted"} => sawActive'[q]
    BY DEF SawActiveTenant
  <2>1. CASE q # r
    BY <2>1 DEF WShape, SawActiveTenant
  <2>2. CASE q = r
    BY <2>2 DEF WShape, SawActiveTenant, TenantUsable
  <2> QED
    BY <2>1, <2>2
<1> QED
  BY <1>1, <1>2, <1>3

LEMMA HitStep ==
  ASSUME RequestInv, RLShape, NEW r \in Requests, CountHit(r) \/ SetTtl(r)
  PROVE  RequestInv'
<1> USE DEF RequestInv, CountHit, SetTtl, wvars, Requests
<1>1. WShape' /\ SawActiveTenant'
  BY DEF WShape, SawActiveTenant
<1>2. CountedAsAsked'
  BY DEF RLShape, CountedAsAsked, Incr, MustExpire, Expire
<1> QED
  BY <1>1, <1>2

LEMMA FailStep ==
  ASSUME RequestInv, RLShape, NEW r \in Requests, Fail(r)
  PROVE  RequestInv'
<1> USE DEF RequestInv, Fail, Answer, Requests
<1>1. WShape' /\ SawActiveTenant'
  BY DEF WShape, SawActiveTenant
<1>2. CountedAsAsked'
  BY DEF RLShape, WShape, CountedAsAsked, Crash, rlvars, Holding
<1> QED
  BY <1>1, <1>2

(* A request that runs while its tenant comes back has seen it active. *)
LEMMA OperatorStep ==
  ASSUME RequestInv, RLShape,
         \/ \E t \in Tenants : Suspend(t) \/ Reactivate(t)
         \/ \E k \in Keys : RetireKey(k)
         \/ Time
  PROVE  RequestInv'
<1> USE DEF RequestInv
<1>1. ASSUME NEW t \in Tenants, Suspend(t) PROVE RequestInv'
  BY <1>1 DEF Suspend, WShape, CountedAsAsked, SawActiveTenant, rlvars
<1>2. ASSUME NEW t \in Tenants, Reactivate(t) PROVE RequestInv'
  <2>1. WShape'
    BY <1>2 DEF Reactivate, WShape
  <2>2. CountedAsAsked'
    BY <1>2 DEF Reactivate, CountedAsAsked, rlvars
  <2>3. SawActiveTenant'
    BY <1>2 DEF Reactivate, WShape, SawActiveTenant, Running
  <2> QED
    BY <2>1, <2>2, <2>3
<1>3. ASSUME NEW k \in Keys, RetireKey(k) PROVE RequestInv'
  BY <1>3 DEF RetireKey, WShape, CountedAsAsked, SawActiveTenant, rlvars
<1>4. CASE Time
  BY <1>4 DEF Time, Tick, wvars, WShape, CountedAsAsked, SawActiveTenant
<1> QED
  BY <1>1, <1>2, <1>3, <1>4

LEMMA RequestNext == RLShape /\ RequestInv /\ [WNext]_vars => RequestInv'
<1> SUFFICES ASSUME RLShape, RequestInv, [WNext]_vars PROVE RequestInv'
  OBVIOUS
<1>1. CASE UNCHANGED vars
  BY <1>1 DEF vars, rlvars, wvars, RequestInv, WShape, CountedAsAsked, SawActiveTenant
<1>2. CASE WNext
  BY <1>2, ArriveStep, PassStep, HitStep, FailStep, OperatorStep DEF WNext
<1> QED
  BY <1>1, <1>2

LEMMA WidgetHolds == WSpec => [](LimiterInv /\ TwoCounters /\ RequestInv)
<1>1. WInit => LimiterInv /\ TwoCounters /\ RequestInv
  BY RequestInit, LimiterInit DEF WInit, WStart
<1>2. LimiterInv /\ TwoCounters /\ RequestInv /\ [WNext]_vars
        => (LimiterInv /\ TwoCounters /\ RequestInv)'
  BY RequestNext, WidgetStepHits, LimiterNext, TwoCountersNext DEF LimiterInv
<1> QED
  BY <1>1, <1>2, PTL DEF WSpec

(* create_session of app/api/v1/widget.py uses the limiter as the limiter's
   specification says: what holds of every use of hit holds of its own. *)
THEOREM WidgetUsesLimiter == WSpec => RLSpec
<1>1. WInit => RLInit
  BY DEF WInit, WStart
<1> QED
  BY <1>1, WidgetStepHits, WidgetHolds, PTL DEF WSpec, RLSpec

(* Every variable of the endpoint keeps its shape. *)
THEOREM WidgetTypeCorrect ==
  ASSUME IsFiniteSet(Hits)
  PROVE  WSpec => []WTypeOK
<1>1. WSpec => []RLTypeOK
  BY WidgetUsesLimiter, LimiterTypeCorrect, PTL
<1>2. RequestInv /\ RLTypeOK => WTypeOK
  BY DEF RequestInv, WShape, WTypeOK
<1> QED
  BY <1>1, <1>2, WidgetHolds, PTL

(* The conversations that one client gets from one widget key in a window are at
   most twice the limit: what is refused or fails after its hit only lowers them. *)
THEOREM MintsStayWithinBudget == WSpec => []MintsWithinBudget
<1>1. ASSUME LimiterInv, TwoCounters, RequestInv, NEW k \in Keys
      PROVE  Cardinality({r \in minted : asked[r] = k /\ age[r] < Window}) <= 2 * Limit
  <2> DEFINE M == {r \in minted : asked[r] = k /\ age[r] < Window}
  <2>1. ASSUME NEW r \in M
        PROVE  r \in Hits /\ key[r] = k /\ Allowed(r) /\ age[r] < Window
    BY <1>1, <2>1 DEF RequestInv, WShape, CountedAsAsked, Allowed, Requests
  <2> QED
    BY <1>1, <2>1, TwoCountersBound DEF LimiterInv
<1>2. LimiterInv /\ TwoCounters /\ RequestInv => MintsWithinBudget
  BY <1>1 DEF MintsWithinBudget
<1> QED
  BY <1>2, WidgetHolds, PTL

(* create_session gives no conversation to a request that ran wholly under a
   suspension, whenever the tenant is suspended and reactivated. *)
THEOREM SuspensionStopsMinting == WSpec => []SuspendedTenantsStopMinting
<1>1. RequestInv => SuspendedTenantsStopMinting
  BY DEF RequestInv, WShape, CountedAsAsked, SawActiveTenant, SuspendedTenantsStopMinting
<1> QED
  BY <1>1, WidgetHolds, PTL
=============================================================================
