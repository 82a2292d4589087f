--------------------------- MODULE TenantContext ----------------------------
(***************************************************************************)
(* The tenant isolation harness: app/infra/db/session.py, engine.py, the   *)
(* get_db dependency, TenantMixin and the row-level policies of the first  *)
(* migration.  Transactions run on pooled connections.  The tenant of a    *)
(* transaction is the setting app.tenant_id, made with set_config(..., true)*)
(* so that it lasts for one transaction; the policies compare tenant_id    *)
(* with that setting, cast to uuid.  An UPDATE ends a version of a row and  *)
(* writes another: it is a Delete and an Insert here.                      *)
(*                                                                         *)
(* Postgres keeps the name of a setting on the connection after its first  *)
(* use: the value falls back to the empty string, not to NULL.             *)
(***************************************************************************)
EXTENDS Naturals, FiniteSets

CONSTANTS Tenants,      \* tenant ids
          Txs,          \* transactions, each of one session
          AppConns,     \* connections of the app role (RLS enforced)
          BypassConns,  \* connections of the BYPASSRLS role, a pool of its own
          NoTenant,     \* the setting reads NULL; also: no context was set
          EmptyString,  \* the setting reads ''
          NoConn        \* a transaction that holds no connection

ASSUME TenantAssumption == NoTenant \notin Tenants /\ EmptyString \notin Tenants
ASSUME PoolAssumption == AppConns \cap BypassConns = {}
ASSUME ConnAssumption == NoConn \notin AppConns \cup BypassConns
ASSUME SettingAssumption == NoTenant # EmptyString

VARIABLES setting,  \* setting[c]: what current_setting returns on connection c
          conn,     \* conn[x]: the connection transaction x runs on
          status,   \* status[x]: how far x is
          kind,     \* kind[x]: which helper opened x
          context,  \* context[x]: the tenant x asked for
          table,    \* committed rows of a tenant-scoped table
          written,  \* written[x]: rows x inserted, not yet committed
          removed,  \* removed[x]: committed rows x has deleted, not yet committed
          seen,     \* seen[x]: the rows x has read
          reply,    \* reply[x]: how the last statement of x ended
          trail,    \* committed platform_audit_log rows, by transaction
          public    \* the table is widget_key, which everyone may read

vars == <<setting, conn, status, kind, context, table, written, removed, seen,
          reply, trail, public>>

Conns == AppConns \cup BypassConns

(* A row is known by the transaction that inserted it and by its tenant_id. *)
Row == [by : Txs, tenant : Tenants]

Init ==
    /\ setting = [c \in Conns |-> NoTenant]
    /\ conn = [x \in Txs |-> NoConn]
    /\ status = [x \in Txs |-> "new"]
    /\ kind = [x \in Txs |-> "app"]
    /\ context = [x \in Txs |-> NoTenant]
    /\ table = {}
    /\ written = [x \in Txs |-> {}]
    /\ removed = [x \in Txs |-> {}]
    /\ seen = [x \in Txs |-> {}]
    /\ reply = [x \in Txs |-> "ok"]
    /\ trail = {}
    /\ public \in BOOLEAN

-----------------------------------------------------------------------------
(* Opening a transaction: a connection is checked out of one of the pools. *)

InUse == {conn[x] : x \in Txs}

Open(x, c, k) ==
    /\ status[x] = "new"
    /\ c \notin InUse
    /\ conn' = [conn EXCEPT ![x] = c]
    /\ status' = [status EXCEPT ![x] = "open"]
    /\ kind' = [kind EXCEPT ![x] = k]
    /\ UNCHANGED <<setting, context, table, written, removed, seen, reply,
                   trail, public>>

(* SessionLocal() and session.begin(): signup, verify_email, widget, get_db. *)
OpenApp(x) == \E c \in AppConns : Open(x, c, "app")

(* platform_bypass; its audit row is in the session from the first moment. *)
OpenBypass(x) == \E c \in BypassConns : Open(x, c, "bypass")

(* auth_bootstrap_session: the bypass role, with no audit row. *)
OpenBootstrap(x) == \E c \in BypassConns : Open(x, c, "bootstrap")

(* set_tenant_guc: once per transaction, on the app role. *)
SetTenant(x, t) ==
    /\ status[x] = "open" /\ kind[x] = "app" /\ context[x] = NoTenant
    /\ setting' = [setting EXCEPT ![conn[x]] = t]
    /\ context' = [context EXCEPT ![x] = t]
    /\ UNCHANGED <<conn, status, kind, table, written, removed, seen, reply,
                   trail, public>>

-----------------------------------------------------------------------------
(* Statements on a table with the tenant_isolation policy, or on widget_key:
   there a second policy, for SELECT only, lets every row through. *)

(* Mutant: the write policy of widget_key is as public as its read policy. *)
Using_Public(r, value) == public \/ r.tenant = value

(* USING (tenant_id = current_setting('app.tenant_id', true)::uuid); a
   comparison with NULL lets no row through. *)
Using(r, value) == r.tenant = value

(* Mutant: the policy is created WITH CHECK (true). *)
WithCheck_Missing(r, value) == TRUE

WithCheck(r, value) == r.tenant = value

Reads(x) == (table \ removed[x]) \cup written[x]

(* The policy needs the setting as a uuid, and it is ''. *)
BadCast(x) == kind[x] = "app" /\ setting[conn[x]] = EmptyString

Select(x) ==
    /\ status[x] = "open"
    /\ public \/ ~BadCast(x)
    /\ seen' = [seen EXCEPT ![x] = @ \cup
                  IF kind[x] = "app" /\ ~public
                    THEN {r \in Reads(x) : Using(r, setting[conn[x]])}
                    ELSE Reads(x)]
    /\ UNCHANGED <<setting, conn, status, kind, context, table, written,
                   removed, reply, trail, public>>

(* ''::uuid is an error whatever the table holds; the transaction is aborted. *)
SelectFails(x) ==
    /\ status[x] = "open" /\ BadCast(x) /\ ~public
    /\ status' = [status EXCEPT ![x] = "aborted"]
    /\ reply' = [reply EXCEPT ![x] = "read_failed"]
    /\ UNCHANGED <<setting, conn, kind, context, table, written, removed, seen,
                   trail, public>>

(* WITH CHECK, or the server default of TenantMixin when no tag is given. *)
Insert(x, t) ==
    /\ status[x] = "open" /\ kind[x] # "bootstrap"
    /\ kind[x] = "app" => WithCheck([by |-> x, tenant |-> t], setting[conn[x]])
    /\ written' = [written EXCEPT ![x] = @ \cup {[by |-> x, tenant |-> t]}]
    /\ UNCHANGED <<setting, conn, status, kind, context, table, removed, seen,
                   reply, trail, public>>

(* A row tagged for another tenant, or no usable setting to take a tag from. *)
InsertFails(x, t) ==
    /\ status[x] = "open" /\ kind[x] = "app"
    /\ ~WithCheck([by |-> x, tenant |-> t], setting[conn[x]])
    /\ status' = [status EXCEPT ![x] = "aborted"]
    /\ reply' = [reply EXCEPT ![x] = "write_failed"]
    /\ UNCHANGED <<setting, conn, kind, context, table, written, removed, seen,
                   trail, public>>

(* A row that another transaction has deleted is locked until that one ends. *)
Delete(x, r) ==
    /\ status[x] = "open" /\ kind[x] # "bootstrap" /\ ~BadCast(x)
    /\ r \in Reads(x)
    /\ kind[x] = "app" => Using(r, setting[conn[x]])
    /\ \A y \in Txs : r \notin removed[y]
    /\ written' = [written EXCEPT ![x] = @ \ {r}]
    /\ removed' = [removed EXCEPT ![x] = @ \cup ({r} \cap table)]
    /\ UNCHANGED <<setting, conn, status, kind, context, table, seen, reply,
                   trail, public>>

DeleteFails(x) ==
    /\ status[x] = "open" /\ BadCast(x)
    /\ status' = [status EXCEPT ![x] = "aborted"]
    /\ reply' = [reply EXCEPT ![x] = "write_failed"]
    /\ UNCHANGED <<setting, conn, kind, context, table, written, removed, seen,
                   trail, public>>

-----------------------------------------------------------------------------
(* Ending a transaction. *)

(* Mutant: set_config(..., false), which outlives the transaction. *)
AfterTransaction_SessionWide(value) == value

(* set_config(..., true) is undone; the name stays behind with an empty value. *)
AfterTransaction(value) == IF value = NoTenant THEN NoTenant ELSE EmptyString

(* Mutant: the connection is not given back. *)
CheckIn_Leaks(x) ==
    /\ setting' = [setting EXCEPT ![conn[x]] = AfterTransaction(@)]
    /\ written' = [written EXCEPT ![x] = {}]
    /\ removed' = [removed EXCEPT ![x] = {}]
    /\ UNCHANGED <<conn, kind, context, seen, reply, public>>

(* SessionLocal() is left: the connection goes back to its pool. *)
CheckIn(x) ==
    /\ setting' = [setting EXCEPT ![conn[x]] = AfterTransaction(@)]
    /\ conn' = [conn EXCEPT ![x] = NoConn]
    /\ written' = [written EXCEPT ![x] = {}]
    /\ removed' = [removed EXCEPT ![x] = {}]
    /\ UNCHANGED <<kind, context, seen, reply, public>>

(* Only the two helpers that open a block commit at its end; the session of
   auth_bootstrap_session is closed, which rolls back. *)
Commit(x) ==
    /\ status[x] = "open" /\ kind[x] # "bootstrap"
    /\ status' = [status EXCEPT ![x] = "committed"]
    /\ table' = (table \ removed[x]) \cup written[x]
    /\ trail' = IF kind[x] = "bypass" THEN trail \cup {x} ELSE trail
    /\ CheckIn(x)

(* An exception leaves the block, or the session is closed. *)
Rollback(x) ==
    /\ status[x] \in {"open", "aborted"}
    /\ status' = [status EXCEPT ![x] = "rolled_back"]
    /\ CheckIn(x)
    /\ UNCHANGED <<table, trail>>

(* The connection breaks; the pool replaces it with a fresh one. *)
Disconnect(x) ==
    /\ status[x] \in {"open", "aborted"}
    /\ status' = [status EXCEPT ![x] = "rolled_back"]
    /\ setting' = [setting EXCEPT ![conn[x]] = NoTenant]
    /\ conn' = [conn EXCEPT ![x] = NoConn]
    /\ written' = [written EXCEPT ![x] = {}]
    /\ removed' = [removed EXCEPT ![x] = {}]
    /\ UNCHANGED <<kind, context, table, seen, reply, trail, public>>

-----------------------------------------------------------------------------
Next ==
    \E x \in Txs :
        \/ OpenApp(x)
        \/ OpenBypass(x)
        \/ OpenBootstrap(x)
        \/ Select(x)
        \/ SelectFails(x)
        \/ \E r \in table \cup written[x] : Delete(x, r)
        \/ DeleteFails(x)
        \/ Commit(x)
        \/ Rollback(x)
        \/ Disconnect(x)
        \/ \E t \in Tenants : \/ SetTenant(x, t)
                              \/ Insert(x, t)
                              \/ InsertFails(x, t)

Spec == Init /\ [][Next]_vars

-----------------------------------------------------------------------------
(* The shape of every variable. *)
TypeOK ==
    /\ setting \in [Conns -> Tenants \cup {NoTenant, EmptyString}]
    /\ conn \in [Txs -> Conns \cup {NoConn}]
    /\ status \in [Txs -> {"new", "open", "aborted", "committed", "rolled_back"}]
    /\ kind \in [Txs -> {"app", "bypass", "bootstrap"}]
    /\ context \in [Txs -> Tenants \cup {NoTenant}]
    /\ table \subseteq Row
    /\ written \in [Txs -> SUBSET Row]
    /\ removed \in [Txs -> SUBSET Row]
    /\ seen \in [Txs -> SUBSET Row]
    /\ reply \in [Txs -> {"ok", "read_failed", "write_failed"}]
    /\ trail \subseteq Txs
    /\ public \in BOOLEAN
    /\ \A x \in Txs : status[x] \in {"open", "aborted"} <=> conn[x] # NoConn

(* Of a tenant-scoped table a transaction of the app role reads rows of the one
   tenant it set as its context, and none before it set one, on whatever
   connection it runs and whoever used that connection before (the policies and
   SET LOCAL). *)
ReadsOwnTenant ==
    \A x \in Txs : kind[x] = "app" /\ ~public =>
        \A r \in seen[x] : r.tenant = context[x]

(* A committed row carries the tenant its transaction had set as its context,
   or was written by an audited bypass (server default and WITH CHECK). *)
RowsBelongToWriter ==
    \A r \in table : \/ kind[r.by] = "app" /\ r.tenant = context[r.by]
                     \/ kind[r.by] = "bypass" /\ r.by \in trail

(* A committed row is only taken away by the commit of a transaction that had set
   the row's tenant as its context, or of an audited bypass: also in widget_key,
   where every transaction sees the rows of all tenants. *)
ForeignRowsSurvive ==
    [][\A r \in table \ table' : \E x \in Txs :
          /\ status[x] = "open" /\ status'[x] = "committed"
          /\ \/ kind[x] = "app" /\ r.tenant = context[x]
             \/ kind[x] = "bypass" /\ x \in trail']_vars

(* What lets a pooled connection be handed to another tenant: between two
   transactions no connection carries a tenant. *)
IdleConnsCarryNoTenant ==
    \A c \in Conns : c \notin InUse => setting[c] \in {NoTenant, EmptyString}

(* A read with no tenant context answers with zero rows. *)
NoContextReadsNothing ==
    \A x \in Txs : kind[x] = "app" /\ context[x] = NoTenant /\ ~public
        => seen[x] = {} /\ reply[x] # "read_failed"

-----------------------------------------------------------------------------
(***************************************************************************)
(* The inductive invariant behind ReadsOwnTenant and RowsBelongToWriter.   *)
(***************************************************************************)

(* No two transactions share a connection. *)
OneUserPerConn ==
    \A x, y \in Txs : conn[x] = conn[y] /\ x # y => conn[x] = NoConn

(* While an app transaction runs, its connection carries its context. *)
SettingFollowsContext ==
    \A x \in Txs : kind[x] = "app" /\ conn[x] # NoConn =>
        IF context[x] \in Tenants
          THEN setting[conn[x]] = context[x]
          ELSE setting[conn[x]] \in {NoTenant, EmptyString}

(* A transaction that did not open has done nothing. *)
NewIsUntouched ==
    \A x \in Txs : status[x] = "new" =>
        context[x] = NoTenant /\ seen[x] = {} /\ written[x] = {} /\ removed[x] = {}

WrittenByWriter ==
    \A x \in Txs : \A r \in written[x] :
        /\ r.by = x
        /\ kind[x] \in {"app", "bypass"}
        /\ kind[x] = "app" => r.tenant = context[x]

RemovedByOwner ==
    \A x \in Txs : \A r \in removed[x] :
        kind[x] = "app" => r.tenant = context[x]

TableIsCommitted == \A r \in table : status[r.by] = "committed"

IsolationInv ==
    /\ TypeOK /\ OneUserPerConn /\ SettingFollowsContext /\ NewIsUntouched
    /\ WrittenByWriter /\ RemovedByOwner /\ TableIsCommitted /\ IdleConnsCarryNoTenant
    /\ ReadsOwnTenant /\ RowsBelongToWriter
=============================================================================
