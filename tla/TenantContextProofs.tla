------------------------ MODULE TenantContextProofs -------------------------
(***************************************************************************)
(* Tenant isolation for every set of tenants, transactions and connections.*)
(***************************************************************************)
EXTENDS TenantContext, TLAPS

LEMMA IsolationInit == Init => IsolationInv
BY TenantAssumption, ConnAssumption DEF Init, IsolationInv, TypeOK, OneUserPerConn,
   SettingFollowsContext, NewIsUntouched, WrittenByWriter, RemovedByOwner, TableIsCommitted,
   IdleConnsCarryNoTenant, ReadsOwnTenant, RowsBelongToWriter, Conns, Row

(* A connection that is checked out is idle until then. *)
LEMMA OpenStep ==
  ASSUME IsolationInv, NEW x \in Txs, NEW c \in Conns,
         NEW k \in {"app", "bypass", "bootstrap"}, Open(x, c, k), public' = public
  PROVE  IsolationInv'
<1> USE DEF IsolationInv
<1>1. TypeOK' /\ RemovedByOwner'
  BY ConnAssumption DEF TypeOK, RemovedByOwner, NewIsUntouched, Open, Conns
<1>2. OneUserPerConn'
  BY DEF TypeOK, OneUserPerConn, Open, InUse
<1>3. SettingFollowsContext'
  BY TenantAssumption DEF TypeOK, SettingFollowsContext, NewIsUntouched, IdleConnsCarryNoTenant,
     Open, InUse
<1>4. NewIsUntouched' /\ WrittenByWriter' /\ TableIsCommitted'
  BY DEF TypeOK, NewIsUntouched, WrittenByWriter, TableIsCommitted, Open, Row
<1>5. IdleConnsCarryNoTenant'
  <2>1. ASSUME NEW d \in Conns, d \notin InUse' PROVE d \notin InUse
    BY <2>1, ConnAssumption DEF TypeOK, Open, InUse, Conns
  <2> QED
    BY <2>1 DEF IdleConnsCarryNoTenant, Open
<1>6. ReadsOwnTenant'
  BY DEF TypeOK, ReadsOwnTenant, NewIsUntouched, Open
<1>7. RowsBelongToWriter'
  BY DEF TypeOK, RowsBelongToWriter, TableIsCommitted, Open, Row
<1> QED
  BY <1>1, <1>2, <1>3, <1>4, <1>5, <1>6, <1>7

LEMMA SetTenantStep ==
  ASSUME IsolationInv, NEW x \in Txs, NEW t \in Tenants, SetTenant(x, t),
         public' = public
  PROVE  IsolationInv'
<1> USE DEF IsolationInv
<1>1. conn[x] \in Conns /\ conn[x] # NoConn
  BY DEF TypeOK, SetTenant
<1>2. TypeOK'
  BY <1>1 DEF TypeOK, SetTenant
<1>3. OneUserPerConn' /\ NewIsUntouched' /\ TableIsCommitted'
  BY DEF TypeOK, OneUserPerConn, NewIsUntouched, TableIsCommitted, SetTenant
<1>4. SettingFollowsContext'
  BY <1>1 DEF TypeOK, OneUserPerConn, SettingFollowsContext, SetTenant
<1>6. (public \/ seen[x] = {}) /\ written[x] = {} /\ removed[x] = {}
  <2>1. \A r \in seen[x] : (public \/ r.tenant = NoTenant) /\ r \in Row
    BY DEF TypeOK, ReadsOwnTenant, SetTenant
  <2>3. \A r \in removed[x] : r.tenant = NoTenant /\ r \in Row
    BY DEF TypeOK, RemovedByOwner, SetTenant
  <2>2. \A r \in written[x] : r.tenant = NoTenant /\ r \in Row
    BY DEF TypeOK, WrittenByWriter, SetTenant
  <2> QED
    BY <2>1, <2>2, <2>3, TenantAssumption DEF Row
<1>7. WrittenByWriter' /\ RemovedByOwner' /\ ReadsOwnTenant'
  BY <1>6 DEF TypeOK, WrittenByWriter, RemovedByOwner, ReadsOwnTenant, SetTenant
<1>8. IdleConnsCarryNoTenant'
  BY <1>1 DEF TypeOK, IdleConnsCarryNoTenant, SetTenant, InUse
<1>9. RowsBelongToWriter'
  BY DEF TypeOK, RowsBelongToWriter, TableIsCommitted, SetTenant, Row
<1> QED
  BY <1>2, <1>3, <1>4, <1>7, <1>8, <1>9

(* A read of the app role passes the policy for the one tenant of x. *)
LEMMA SelectStep ==
  ASSUME IsolationInv, NEW x \in Txs, Select(x), public' = public
  PROVE  IsolationInv'
<1> USE DEF IsolationInv
<1>1. conn[x] \in Conns /\ conn[x] # NoConn
  BY DEF TypeOK, Select
<1>2. ASSUME kind[x] = "app", ~public, NEW r \in seen'[x] PROVE r.tenant = context[x]
  <2>1. CASE r \in seen[x]
    BY <1>2, <2>1 DEF ReadsOwnTenant
  <2>2. CASE r \notin seen[x]
    <3>1. r \in Row /\ r.tenant = setting[conn[x]]
      BY <1>2, <2>2 DEF TypeOK, Select, Using, Reads
    <3>2. r.tenant \in Tenants
      BY <3>1 DEF Row
    <3> QED
      BY <1>1, <1>2, <3>1, <3>2, TenantAssumption DEF SettingFollowsContext
  <2> QED
    BY <2>1, <2>2
<1>3. TypeOK'
  BY DEF TypeOK, Select, Reads
<1>4. ReadsOwnTenant'
  BY <1>2 DEF TypeOK, ReadsOwnTenant, Select
<1> QED
  BY <1>3, <1>4 DEF TypeOK, OneUserPerConn, SettingFollowsContext, NewIsUntouched,
     WrittenByWriter, RemovedByOwner, TableIsCommitted, IdleConnsCarryNoTenant,
     RowsBelongToWriter, Select, InUse

(* A row that passes WITH CHECK carries the tenant of the context. *)
LEMMA InsertStep ==
  ASSUME IsolationInv, NEW x \in Txs, NEW t \in Tenants, Insert(x, t),
         public' = public
  PROVE  IsolationInv'
<1> USE DEF IsolationInv
<1> DEFINE r == [by |-> x, tenant |-> t]
<1>1. conn[x] \in Conns /\ conn[x] # NoConn /\ r \in Row
  BY DEF TypeOK, Insert, Row
<1>2. kind[x] = "app" => r.tenant = context[x]
  BY <1>1, TenantAssumption DEF Insert, WithCheck, SettingFollowsContext
<1>3. TypeOK'
  BY <1>1 DEF TypeOK, Insert
<1>4. WrittenByWriter'
  BY <1>2 DEF TypeOK, WrittenByWriter, Insert
<1> QED
  BY <1>3, <1>4 DEF TypeOK, OneUserPerConn, SettingFollowsContext, NewIsUntouched,
     RemovedByOwner, TableIsCommitted, IdleConnsCarryNoTenant, ReadsOwnTenant,
     RowsBelongToWriter, Insert, InUse

(* A row that passes USING for a deletion carries the tenant of the context. *)
LEMMA DeleteStep ==
  ASSUME IsolationInv, NEW x \in Txs, NEW r, Delete(x, r), public' = public
  PROVE  IsolationInv'
<1> USE DEF IsolationInv
<1>1. conn[x] \in Conns /\ conn[x] # NoConn /\ r \in Row
  BY DEF TypeOK, Delete, Reads
<1>2. kind[x] = "app" => r.tenant = context[x]
  <2>1. r.tenant \in Tenants
    BY <1>1 DEF Row
  <2>2. QED
    BY <1>1, <2>1, TenantAssumption DEF Delete, Using, SettingFollowsContext
<1>3. TypeOK'
  BY <1>1 DEF TypeOK, Delete
<1>4. WrittenByWriter' /\ RemovedByOwner'
  BY <1>2 DEF TypeOK, WrittenByWriter, RemovedByOwner, Delete
<1>5. NewIsUntouched'
  BY DEF TypeOK, NewIsUntouched, Delete
<1> QED
  BY <1>3, <1>4, <1>5 DEF OneUserPerConn, SettingFollowsContext,
     TableIsCommitted, IdleConnsCarryNoTenant, ReadsOwnTenant,
     RowsBelongToWriter, Delete, InUse

LEMMA StatementFailsStep ==
  ASSUME IsolationInv, NEW x \in Txs, public' = public,
         \/ SelectFails(x) \/ DeleteFails(x)
         \/ \E t \in Tenants : InsertFails(x, t)
  PROVE  IsolationInv'
<1>1. /\ status[x] = "open" /\ status' = [status EXCEPT ![x] = "aborted"]
      /\ \E a \in {"read_failed", "write_failed"} : reply' = [reply EXCEPT ![x] = a]
      /\ UNCHANGED <<setting, conn, kind, context, table, written, removed, seen,
                     trail, public>>
  BY DEF SelectFails, InsertFails, DeleteFails
<1>2. TypeOK'
  BY <1>1 DEF IsolationInv, TypeOK
<1>3. TableIsCommitted' /\ NewIsUntouched'
  BY <1>1 DEF IsolationInv, TypeOK, TableIsCommitted, NewIsUntouched
<1> QED
  BY <1>1, <1>2, <1>3 DEF IsolationInv, OneUserPerConn, SettingFollowsContext,
     WrittenByWriter, RemovedByOwner, IdleConnsCarryNoTenant, ReadsOwnTenant,
     RowsBelongToWriter, InUse

(***************************************************************************)
(* The end of a transaction, however it ends: its connection returns to    *)
(* the pool without a tenant, and its uncommitted rows are gone or, when   *)
(* it committed, in the table.                                             *)
(***************************************************************************)
LEMMA EndStep ==
  ASSUME IsolationInv, NEW x \in Txs, NEW s \in {"committed", "rolled_back"},
         NEW v \in {NoTenant, EmptyString},
         status[x] \in {"open", "aborted"},
         status' = [status EXCEPT ![x] = s],
         setting' = [setting EXCEPT ![conn[x]] = v],
         conn' = [conn EXCEPT ![x] = NoConn],
         written' = [written EXCEPT ![x] = {}],
         removed' = [removed EXCEPT ![x] = {}],
         UNCHANGED <<kind, context, seen, reply, public>>,
         table' = IF s = "committed" THEN (table \ removed[x]) \cup written[x]
                                     ELSE table,
         trail' = IF s = "committed" /\ kind[x] = "bypass" THEN trail \cup {x}
                                                            ELSE trail
  PROVE  IsolationInv'
<1> USE DEF IsolationInv
<1>1. conn[x] \in Conns /\ conn[x] # NoConn
  BY DEF TypeOK
<1>2. TypeOK'
  BY DEF TypeOK
<1>3. /\ OneUserPerConn' /\ NewIsUntouched' /\ WrittenByWriter' /\ RemovedByOwner'
      /\ ReadsOwnTenant'
  BY DEF TypeOK, OneUserPerConn, NewIsUntouched, WrittenByWriter, RemovedByOwner,
     ReadsOwnTenant
<1>4. SettingFollowsContext'
  BY <1>1 DEF TypeOK, OneUserPerConn, SettingFollowsContext
<1>5. IdleConnsCarryNoTenant'
  <2>1. ASSUME NEW c \in Conns, c \notin InUse', c # conn[x] PROVE c \notin InUse
    BY <2>1 DEF TypeOK, InUse
  <2>2. setting'[conn[x]] = v
    BY <1>1 DEF TypeOK
  <2> QED
    BY <2>1, <2>2 DEF TypeOK, IdleConnsCarryNoTenant
<1>6. TableIsCommitted'
  BY DEF TypeOK, TableIsCommitted, WrittenByWriter, Row
<1>7. ASSUME NEW r \in table'
      PROVE  \/ kind[r.by] = "app" /\ r.tenant = context[r.by]
             \/ kind[r.by] = "bypass" /\ r.by \in trail'
  <2>1. CASE r \in table
    BY <2>1 DEF RowsBelongToWriter
  <2>2. CASE r \in written[x] /\ s = "committed"
    BY <2>2 DEF WrittenByWriter
  <2> QED
    BY <1>7, <2>1, <2>2
<1>8. RowsBelongToWriter'
  BY <1>7 DEF RowsBelongToWriter
<1> QED
  BY <1>2, <1>3, <1>4, <1>5, <1>6, <1>8

LEMMA CommitStep ==
  ASSUME IsolationInv, NEW x \in Txs, Commit(x), public' = public
  PROVE  IsolationInv'
<1>1. AfterTransaction(setting[conn[x]]) \in {NoTenant, EmptyString}
  BY DEF AfterTransaction
<1>2. setting' = [setting EXCEPT ![conn[x]] = AfterTransaction(setting[conn[x]])]
  BY DEF Commit, CheckIn
<1> QED
  BY <1>1, <1>2, EndStep DEF Commit, CheckIn

LEMMA RollbackStep ==
  ASSUME IsolationInv, NEW x \in Txs, Rollback(x) \/ Disconnect(x),
         public' = public
  PROVE  IsolationInv'
<1>1. AfterTransaction(setting[conn[x]]) \in {NoTenant, EmptyString}
  BY DEF AfterTransaction
<1>2. \E v \in {NoTenant, EmptyString} : setting' = [setting EXCEPT ![conn[x]] = v]
  BY <1>1 DEF Rollback, Disconnect, CheckIn
<1> QED
  BY <1>2, EndStep DEF Rollback, Disconnect, CheckIn

LEMMA IsolationStep == IsolationInv /\ [Next]_vars => IsolationInv'
<1> SUFFICES ASSUME IsolationInv, [Next]_vars PROVE IsolationInv'
  OBVIOUS
<1>0. CASE public' # public
  BY <1>0 DEF Next, vars, OpenApp, OpenBypass, OpenBootstrap, Open, SetTenant, Select,
     SelectFails, Insert, InsertFails, Delete, DeleteFails, Commit, Rollback,
     Disconnect, CheckIn
<1> SUFFICES ASSUME public' = public PROVE IsolationInv'
  BY <1>0
<1>1. ASSUME NEW x \in Txs, OpenApp(x) \/ OpenBypass(x) \/ OpenBootstrap(x)
      PROVE  IsolationInv'
  BY <1>1, OpenStep DEF OpenApp, OpenBypass, OpenBootstrap, Conns
<1>2. ASSUME NEW x \in Txs, NEW t \in Tenants, SetTenant(x, t) \/ Insert(x, t)
      PROVE  IsolationInv'
  BY <1>2, SetTenantStep, InsertStep
<1>3. ASSUME NEW x \in Txs, Select(x) PROVE IsolationInv'
  BY <1>3, SelectStep
<1>4. ASSUME NEW x \in Txs,
             \/ SelectFails(x) \/ DeleteFails(x)
             \/ \E t \in Tenants : InsertFails(x, t)
      PROVE  IsolationInv'
  BY <1>4, StatementFailsStep
<1>5. ASSUME NEW x \in Txs, Commit(x) \/ Rollback(x) \/ Disconnect(x)
      PROVE  IsolationInv'
  BY <1>5, CommitStep, RollbackStep
<1>6. ASSUME NEW x \in Txs, NEW r, Delete(x, r) PROVE IsolationInv'
  BY <1>6, DeleteStep
<1>7. CASE UNCHANGED vars
  BY <1>7 DEF vars, IsolationInv, TypeOK, OneUserPerConn, SettingFollowsContext,
     NewIsUntouched, WrittenByWriter, RemovedByOwner, TableIsCommitted,
     IdleConnsCarryNoTenant, ReadsOwnTenant, RowsBelongToWriter, InUse
<1> QED
  BY <1>1, <1>2, <1>3, <1>4, <1>5, <1>6, <1>7 DEF Next

LEMMA IsolationInvariant == Spec => []IsolationInv
<1> QED
  BY IsolationInit, IsolationStep, PTL DEF Spec

(* Every transaction of the app role reads rows of its own context only, on a
   pool of any size and after any history of the connection it runs on. *)
THEOREM TenantIsolation == Spec => []ReadsOwnTenant
<1>1. IsolationInv => ReadsOwnTenant
  BY DEF IsolationInv
<1> QED
  BY <1>1, IsolationInvariant, PTL

(* The shape of every variable, for every pool. *)
THEOREM TypeCorrect == Spec => []TypeOK
<1>1. IsolationInv => TypeOK
  BY DEF IsolationInv
<1> QED
  BY <1>1, IsolationInvariant, PTL

(* The pool hands out connections without a tenant, whatever ran on them before
   and however it ended (SET LOCAL of set_tenant_guc). *)
THEOREM PoolStaysClean == Spec => []IdleConnsCarryNoTenant
<1>1. IsolationInv => IdleConnsCarryNoTenant
  BY DEF IsolationInv
<1> QED
  BY <1>1, IsolationInvariant, PTL

(* Only commits take rows away, and only rows that passed USING, or a bypass. *)
LEMMA RowsGoByCommit ==
  ASSUME IsolationInv, [Next]_vars, NEW r \in table \ table'
  PROVE  \E x \in Txs :
            /\ status[x] = "open" /\ status'[x] = "committed"
            /\ \/ kind[x] = "app" /\ r.tenant = context[x]
               \/ kind[x] = "bypass" /\ x \in trail'
<1>1. PICK x \in Txs : Commit(x)
  BY DEF Next, vars, OpenApp, OpenBypass, OpenBootstrap, Open, SetTenant, Select,
     SelectFails, Insert, InsertFails, Delete, DeleteFails, Rollback, Disconnect
<1>2. r \in removed[x] /\ kind[x] \in {"app", "bypass"}
  BY <1>1 DEF Commit, IsolationInv, TypeOK
<1>3. status[x] = "open" /\ status'[x] = "committed"
  BY <1>1 DEF Commit, IsolationInv, TypeOK
<1> QED
  BY <1>1, <1>2, <1>3 DEF Commit, IsolationInv, RemovedByOwner

(* For any pool, any history and both kinds of tables: no commit takes away a
   row of a tenant other than its own, unless it is an audited bypass. *)
THEOREM RowsSurvive == Spec => ForeignRowsSurvive
<1>1. IsolationInv /\ [Next]_vars =>
        [\A r \in table \ table' : \E x \in Txs :
          /\ status[x] = "open" /\ status'[x] = "committed"
          /\ \/ kind[x] = "app" /\ r.tenant = context[x]
             \/ kind[x] = "bypass" /\ x \in trail']_vars
  BY RowsGoByCommit
<1> QED
  BY <1>1, IsolationInvariant, PTL DEF Spec, ForeignRowsSurvive

(* Every committed row is in the tenant its writer had set as its context, or
   has an audit row of the bypass that wrote it. *)
THEOREM CommittedRowsAccounted == Spec => []RowsBelongToWriter
<1>1. IsolationInv => RowsBelongToWriter
  BY DEF IsolationInv
<1> QED
  BY <1>1, IsolationInvariant, PTL
=============================================================================
