--------------------------- MODULE WidgetSession ----------------------------
(***************************************************************************)
(* POST /widget/session of app/api/v1/widget.py: many anonymous requests   *)
(* at once, each one transaction on a pooled connection that it keeps      *)
(* while it asks Redis for its place in the rate limit.  Operators suspend *)
(* and reactivate tenants and retire keys meanwhile; the allowed domains   *)
(* are any, and stay as they are.                                          *)
(*                                                                         *)
(* A request makes at most one hit and lends it its identity (Hits).  The  *)
(* requests of the model come from one client address, so the rate key     *)
(* (tenant, widget key, address) is named by the widget key (Keys).        *)
(***************************************************************************)
EXTENDS RateLimit

CONSTANTS Tenants,
          TenantOf,   \* the tenant of each widget key
          Origins,    \* values of the Origin header
          NoOrigin,   \* a request without the header
          Domains,    \* values of allowed_domain.domain
          Matches,    \* <<origin, domain>>: the origin ends in the domain
          PoolSize    \* connections of the application pool

ASSUME TenantOfAssumption == TenantOf \in [Keys -> Tenants]
ASSUME MatchesAssumption == Matches \subseteq Origins \X Domains
ASSUME PoolSizeAssumption == PoolSize \in Nat \ {0}

VARIABLES at,         \* at[r]: how far request r is
          asked,      \* asked[r]: the widget key in the body of r
          origin,     \* origin[r]: its Origin header
          active,     \* the tenants whose status is active
          liveKeys,   \* the widget keys that are active
          domains,    \* domains[t]: the allowed domains of tenant t
          minted,     \* committed conversations, by the request
          sawActive   \* history: the tenant was active while r was running

wvars == <<at, asked, origin, active, liveKeys, domains, minted, sawActive>>
vars == <<rlvars, wvars>>

Requests == Hits

(* The database at the start, with these widget keys in use. *)
WStart(keys) ==
    /\ RLInit
    /\ at = [r \in Requests |-> "new"]
    /\ asked = [r \in Requests |-> NoKey]
    /\ origin = [r \in Requests |-> NoOrigin]
    /\ active = Tenants
    /\ liveKeys = keys
    /\ domains \in [Tenants -> SUBSET Domains]
    /\ minted = {}
    /\ sawActive = [r \in Requests |-> FALSE]

WInit == WStart(Keys)

Running == {"waiting", "keyed", "scoped", "checked"}

(* Mutant: a refusal leaves the block without giving the connection back. *)
Holding_Leaky == {r \in Requests : at[r] \in {"keyed", "scoped", "checked", "refused"}}

(* A connection is held from the first statement to the end of the block. *)
Holding == {r \in Requests : at[r] \in {"keyed", "scoped", "checked"}}

Answer(r, outcome) == at' = [at EXCEPT ![r] = outcome]

-----------------------------------------------------------------------------
Arrive(r, k, o) ==
    /\ at[r] = "new"
    /\ Answer(r, "waiting")
    /\ asked' = [asked EXCEPT ![r] = k]
    /\ origin' = [origin EXCEPT ![r] = o]
    /\ sawActive' = [sawActive EXCEPT ![r] = TenantOf[k] \in active]
    /\ UNCHANGED <<rlvars, active, liveKeys, domains, minted>>

(* SELECT widget_key: an unknown or inactive key is answered 404. *)
LookupKey(r) ==
    /\ at[r] = "waiting"
    /\ Cardinality(Holding) < PoolSize
    /\ Answer(r, IF asked[r] \in liveKeys THEN "keyed" ELSE "refused")
    /\ UNCHANGED <<rlvars, asked, origin, active, liveKeys, domains, minted,
                   sawActive>>

(* No connection came free within the pool's timeout. *)
PoolTimeout(r) ==
    /\ at[r] = "waiting"
    /\ Cardinality(Holding) >= PoolSize
    /\ Answer(r, "failed")
    /\ UNCHANGED <<rlvars, asked, origin, active, liveKeys, domains, minted,
                   sawActive>>

(* Mutant: the status of the tenant is not looked at. *)
TenantUsable_Any(t) == TRUE

TenantUsable(t) == t \in active

(* SELECT tenant: 403 unless active; then the transaction is scoped to it. *)
CheckTenant(r) ==
    /\ at[r] = "keyed"
    /\ Answer(r, IF TenantUsable(TenantOf[asked[r]]) THEN "scoped" ELSE "refused")
    /\ UNCHANGED <<rlvars, asked, origin, active, liveKeys, domains, minted,
                   sawActive>>

(* ratelimit.hit, in its two commands. *)
CountHit(r) ==
    /\ at[r] = "scoped"
    /\ Incr(r, asked[r])
    /\ UNCHANGED wvars

SetTtl(r) == Expire(r) /\ UNCHANGED wvars

(* No header, no domain configured, or the header ends in one of them. *)
OriginAllowed(o, D) ==
    \/ o = NoOrigin
    \/ D = {}
    \/ \E d \in D : <<o, d>> \in Matches

(* Mutant: the answer of the limiter is dropped. *)
Verdict_NoLimit(r) == OriginAllowed(origin[r], domains[TenantOf[asked[r]]])

(* The verdict of the limiter (429), then the allowlist (403). *)
Verdict(r) ==
    Allowed(r) /\ OriginAllowed(origin[r], domains[TenantOf[asked[r]]])

CheckOrigin(r) ==
    /\ at[r] = "scoped" /\ phase[r] = "done"
    /\ Answer(r, IF Verdict(r) THEN "checked" ELSE "refused")
    /\ UNCHANGED <<rlvars, asked, origin, active, liveKeys, domains, minted,
                   sawActive>>

(* The settings are read, the conversation is inserted and committed. *)
Mint(r) ==
    /\ at[r] = "checked"
    /\ Answer(r, "minted")
    /\ minted' = minted \cup {r}
    /\ UNCHANGED <<rlvars, asked, origin, active, liveKeys, domains, sawActive>>

(* Any await may raise, be cancelled or die with the process: the transaction
   rolls back, the counter in Redis stays. *)
Fail(r) ==
    /\ r \in Holding
    /\ Answer(r, "failed")
    /\ IF phase[r] = "expire" THEN Crash(r) ELSE UNCHANGED rlvars
    /\ UNCHANGED <<asked, origin, active, liveKeys, domains, minted, sawActive>>

-----------------------------------------------------------------------------
(* What operators and tenant admins do meanwhile. *)

Suspend(t) ==
    /\ active' = active \ {t}
    /\ UNCHANGED <<rlvars, at, asked, origin, liveKeys, domains, minted,
                   sawActive>>

Reactivate(t) ==
    /\ active' = active \cup {t}
    /\ sawActive' = [r \in Requests |->
                        \/ sawActive[r]
                        \/ at[r] \in Running /\ TenantOf[asked[r]] = t]
    /\ UNCHANGED <<rlvars, at, asked, origin, liveKeys, domains, minted>>

RetireKey(k) ==
    /\ liveKeys' = liveKeys \ {k}
    /\ UNCHANGED <<rlvars, at, asked, origin, active, domains, minted,
                   sawActive>>

(* Redis' clock. *)
Time == Tick /\ UNCHANGED wvars

WNext ==
    \/ \E r \in Requests :
          \/ \E k \in Keys, o \in Origins \cup {NoOrigin} : Arrive(r, k, o)
          \/ LookupKey(r)
          \/ PoolTimeout(r)
          \/ CheckTenant(r)
          \/ CountHit(r)
          \/ SetTtl(r)
          \/ CheckOrigin(r)
          \/ Mint(r)
          \/ Fail(r)
    \/ \E t \in Tenants : Suspend(t) \/ Reactivate(t)
    \/ \E k \in Keys : RetireKey(k)
    \/ Time

WSpec == WInit /\ [][WNext]_vars

(* The event loop runs every request, Postgres and Redis answer. *)
Serve(r) ==
    \/ LookupKey(r) \/ CheckTenant(r) \/ CountHit(r) \/ SetTtl(r)
    \/ CheckOrigin(r) \/ Mint(r)

-----------------------------------------------------------------------------
(* The shape of every variable. *)
WTypeOK ==
    /\ RLTypeOK
    /\ at \in [Requests -> Running \cup {"new", "refused", "failed", "minted"}]
    /\ asked \in [Requests -> Keys \cup {NoKey}]
    /\ origin \in [Requests -> Origins \cup {NoOrigin}]
    /\ active \subseteq Tenants
    /\ liveKeys \subseteq Keys
    /\ domains \in [Tenants -> SUBSET Domains]
    /\ minted \subseteq Requests
    /\ sawActive \in [Requests -> BOOLEAN]

(* The conversations one client gets from one widget key in any stretch of
   time as long as the window, measured at the INCR, are at most twice the
   limit, whatever fails or is refused in between. *)
MintsWithinBudget ==
    \A k \in Keys :
        Cardinality({r \in minted : asked[r] = k /\ age[r] < Window}) <= 2 * Limit

(* A suspended tenant gets no new conversation from a request that came after
   the suspension: a minted request ran while its tenant was active. *)
SuspendedTenantsStopMinting == \A r \in minted : sawActive[r]

(* Every request is answered, though requests hold a connection while they
   wait for Redis. *)
RequestsAnswered == \A r \in Requests : at[r] = "waiting" ~> at[r] \notin Running
=============================================================================
