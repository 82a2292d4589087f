----------------------------- MODULE Onboarding -----------------------------
(***************************************************************************)
(* The life of a workspace account in app/api/v1/auth.py: signup,          *)
(* verify-email, login and refresh, with the verification mail travelling  *)
(* through the outbox.                                                     *)
(*                                                                         *)
(* A signup request names everything it creates: its tenant, its staff     *)
(* row, its settings, its widget key and its outbox event.  signup is one  *)
(* transaction of two flushes; the unique index on staff.email makes the   *)
(* second flush wait for another uncommitted insert of the same address.   *)
(***************************************************************************)
EXTENDS Naturals, FiniteSets, Permissions

CONSTANTS Signups,  \* signup requests
          Logins,   \* login requests
          Emails,   \* e-mail addresses
          Nobody    \* no staff row was found; no address was given

ASSUME NobodyAssumption == Nobody \notin Signups /\ Nobody \notin Emails

VARIABLES phase,      \* phase[s]: how far signup s is
          email,      \* email[s]: the address in the body of s
          work,       \* work[s]: what the open transaction of s has inserted
          db,         \* db[s]: what of s is committed
          inbox,      \* the signups whose verification mail has arrived
          verified,   \* committed staff rows with email_verified
          disabled,   \* committed staff rows without is_active
          suspended,  \* committed tenants that are not active
          login,      \* login[l]: how far login l is
          found,      \* found[l]: the staff row login l has read
          snapshot,   \* snapshot[l]: its flags at that time
          tokens,     \* signed tokens that somebody holds
          standing    \* history: [l]: what held at some time during login l

vars == <<phase, email, work, db, inbox, verified, disabled, suspended,
          login, found, snapshot, tokens, standing>>

signupVars == <<phase, email, work, db>>
loginVars == <<login, found, snapshot, standing>>

Parts == {"tenant", "staff", "settings", "key", "event"}

Token == [typ : {"access", "refresh", "verify"}, sub : Signups]

Flags == [verified : BOOLEAN, active : BOOLEAN]

Init ==
    /\ phase = [s \in Signups |-> "new"]
    /\ email = [s \in Signups |-> Nobody]
    /\ work = [s \in Signups |-> {}]
    /\ db = [s \in Signups |-> {}]
    /\ inbox = {} /\ verified = {} /\ disabled = {} /\ suspended = {}
    /\ login = [l \in Logins |-> "new"]
    /\ found = [l \in Logins |-> Nobody]
    /\ snapshot = [l \in Logins |-> [verified |-> FALSE, active |-> FALSE]]
    /\ tokens = {}
    /\ standing = [l \in Logins |-> {}]

-----------------------------------------------------------------------------
(* POST /auth/signup *)

Advance(s, to) == phase' = [phase EXCEPT ![s] = to]

(* Insert the tenant, flush, scope the transaction to it. *)
InsertTenant(s, e) ==
    /\ phase[s] = "new"
    /\ email' = [email EXCEPT ![s] = e]
    /\ work' = [work EXCEPT ![s] = {"tenant"}]
    /\ Advance(s, "tenant")
    /\ UNCHANGED <<db, inbox, verified, disabled, suspended, loginVars, tokens>>

(* Mutant: addresses are unique within a tenant only. *)
Rival_SameTenant(s, where) == FALSE

(* Another signup whose staff row with the same address is in the index. *)
Rival(s, where) ==
    \E r \in Signups \ {s} : email[r] = email[s] /\ "staff" \in where[r]

(* The second flush: staff, settings and widget key. *)
InsertStaff(s) ==
    /\ phase[s] \in {"tenant", "waiting"}
    /\ ~Rival(s, db) /\ ~Rival(s, work)
    /\ work' = [work EXCEPT ![s] = @ \cup {"staff", "settings", "key"}]
    /\ Advance(s, "staff")
    /\ UNCHANGED <<email, db, inbox, verified, disabled, suspended, loginVars,
                   tokens>>

(* Postgres waits to see whether the other insert commits. *)
WaitForRival(s) ==
    /\ phase[s] = "tenant"
    /\ Rival(s, work) /\ ~Rival(s, db)
    /\ Advance(s, "waiting")
    /\ UNCHANGED <<email, work, db, inbox, verified, disabled, suspended,
                   loginVars, tokens>>

(* Mutant: the flushed tenant was committed by itself. *)
Undo_KeepsTenant(s, outcome) ==
    /\ work' = [work EXCEPT ![s] = {}]
    /\ db' = [db EXCEPT ![s] = @ \cup {"tenant"}]
    /\ Advance(s, outcome)
    /\ UNCHANGED <<email, inbox, verified, disabled, suspended, loginVars, tokens>>

Undo(s, outcome) ==
    /\ work' = [work EXCEPT ![s] = {}]
    /\ Advance(s, outcome)
    /\ UNCHANGED <<email, db, inbox, verified, disabled, suspended, loginVars,
                   tokens>>

(* Mutant: a signup that had to wait is not told of the conflict. *)
EmailTaken_NoWaiter(s) ==
    /\ phase[s] = "tenant"
    /\ Rival(s, db)
    /\ Undo(s, "taken")

(* IntegrityError: 409 email_taken, and the whole transaction is undone. *)
EmailTaken(s) ==
    /\ phase[s] \in {"tenant", "waiting"}
    /\ Rival(s, db)
    /\ Undo(s, "taken")

(* Any other exception, or the death of the process, before the commit. *)
SignupFails(s) ==
    /\ phase[s] \in {"tenant", "waiting", "staff"}
    /\ Undo(s, "failed")

(* The verify token is made, the event emitted, flushed and committed with
   everything else. *)
SignupCommits(s) ==
    /\ phase[s] = "staff"
    /\ db' = [db EXCEPT ![s] = work[s] \cup {"event"}]
    /\ work' = [work EXCEPT ![s] = {}]
    /\ Advance(s, "created")
    /\ UNCHANGED <<email, inbox, verified, disabled, suspended, loginVars, tokens>>

-----------------------------------------------------------------------------
(* The relay, which sends a committed event at least once. *)
DeliverMail(s) ==
    /\ "event" \in db[s]
    /\ inbox' = inbox \cup {s}
    /\ tokens' = tokens \cup {[typ |-> "verify", sub |-> s]}
    /\ UNCHANGED <<signupVars, verified, disabled, suspended, loginVars>>

(* POST /auth/verify-email: UPDATE staff; no row is no error. *)
VerifyEmail(t) ==
    /\ t \in tokens /\ t.typ = "verify"
    /\ verified' = IF "staff" \in db[t.sub] THEN verified \cup {t.sub} ELSE verified
    /\ UNCHANGED <<signupVars, inbox, disabled, suspended, loginVars, tokens>>

(* What staff and tenant administration changes meanwhile. *)
Administrate(s) ==
    /\ "staff" \in db[s]
    /\ \/ disabled' = disabled \cup {s} /\ UNCHANGED suspended
       \/ disabled' = disabled \ {s} /\ UNCHANGED suspended
       \/ suspended' = suspended \cup {s} /\ UNCHANGED disabled
       \/ suspended' = suspended \ {s} /\ UNCHANGED disabled
    /\ standing' = [l \in Logins |->
          IF login[l] = "read" /\ found[l] = s /\ s \notin suspended'
            THEN standing[l] \cup {"tenant"} ELSE standing[l]]
    /\ UNCHANGED <<signupVars, inbox, verified, login, found, snapshot, tokens>>

-----------------------------------------------------------------------------
(* POST /auth/login: two reads, each of what is committed at its time. *)

Account(e) == {s \in Signups : "staff" \in db[s] /\ email[s] = e}

(* No such account: verify_password is not reached, 401. *)
RefuseUnknown(l, e) ==
    /\ login[l] = "new"
    /\ Account(e) = {}
    /\ login' = [login EXCEPT ![l] = "refused"]
    /\ UNCHANGED <<signupVars, inbox, verified, disabled, suspended, found,
                   snapshot, standing, tokens>>

ReadStaff(l, s) ==
    /\ login[l] = "new"
    /\ s \in Account(email[s])
    /\ login' = [login EXCEPT ![l] = "read"]
    /\ found' = [found EXCEPT ![l] = s]
    /\ snapshot' = [snapshot EXCEPT ![l] =
                      [verified |-> s \in verified, active |-> s \notin disabled]]
    /\ standing' = [standing EXCEPT ![l] =
                      (IF s \notin disabled THEN {"staff"} ELSE {})
                      \cup (IF s \notin suspended THEN {"tenant"} ELSE {})]
    /\ UNCHANGED <<signupVars, inbox, verified, disabled, suspended, tokens>>

(* Mutant: email_verified is not checked. *)
MayLogIn_Unverified(l, passwordOk) ==
    passwordOk /\ snapshot[l].active /\ found[l] \notin suspended

(* Mutant: the status of the tenant is not checked. *)
MayLogIn_Suspended(l, passwordOk) ==
    passwordOk /\ snapshot[l].active /\ snapshot[l].verified

MayLogIn(l, passwordOk) ==
    /\ passwordOk
    /\ snapshot[l].active
    /\ snapshot[l].verified
    /\ found[l] \notin suspended

(* Mutant: the access token is given no known type. *)
Pair_Untyped(s) == {[typ |-> "none", sub |-> s], [typ |-> "refresh", sub |-> s]}

Pair(s) == {[typ |-> "access", sub |-> s], [typ |-> "refresh", sub |-> s]}

(* The tenant is read; the verdict combines it with the earlier staff row. *)
Decide(l, passwordOk) ==
    /\ login[l] = "read"
    /\ IF MayLogIn(l, passwordOk)
         THEN /\ login' = [login EXCEPT ![l] = "done"]
              /\ tokens' = tokens \cup Pair(found[l])
         ELSE /\ login' = [login EXCEPT ![l] = "refused"]
              /\ UNCHANGED tokens
    /\ UNCHANGED <<signupVars, inbox, verified, disabled, suspended, found,
                   snapshot, standing>>

(* POST /auth/refresh: a new pair from the claims of the old token. *)
Refresh(t) ==
    /\ t \in tokens /\ t.typ = "refresh"
    /\ tokens' = tokens \cup Pair(t.sub)
    /\ UNCHANGED <<signupVars, inbox, verified, disabled, suspended, loginVars>>

-----------------------------------------------------------------------------
(* The gate of a staff endpoint, app/api/deps.py.  It reads the bearer token and
   nothing else, so it is a predicate on tokens and no step. *)

(* A verify token carries no role; every account of a signup is an admin. *)
RoleClaim(t) == IF t.typ = "verify" THEN "" ELSE "admin"

(* Mutant: any signed token will do. *)
GetCurrentStaff_AnyType(t) == t.typ \in {"access", "refresh", "verify"}

(* 401 unless the bearer is an access token. *)
GetCurrentStaff(t) == t.typ = "access"

StaffContext(t) ==
    [staff_id |-> t.sub, role |-> RoleClaim(t), permissions |-> PermissionsFor(RoleClaim(t))]

(* 403 unless the caller's role grants the permission. *)
RequirePermission(t, permission) ==
    GetCurrentStaff(t) /\ permission \in StaffContext(t).permissions

-----------------------------------------------------------------------------
Next ==
    \/ \E s \in Signups :
          \/ \E e \in Emails : InsertTenant(s, e)
          \/ InsertStaff(s)
          \/ WaitForRival(s)
          \/ EmailTaken(s)
          \/ SignupFails(s)
          \/ SignupCommits(s)
          \/ DeliverMail(s)
          \/ Administrate(s)
    \/ \E t \in tokens : VerifyEmail(t) \/ Refresh(t)
    \/ \E l \in Logins :
          \/ \E e \in Emails : RefuseUnknown(l, e)
          \/ \E s \in Signups : ReadStaff(l, s)
          \/ \E passwordOk \in BOOLEAN : Decide(l, passwordOk)

Spec == Init /\ [][Next]_vars

(* Postgres grants the index wait; the handler runs to its end. *)
FairSpec ==
    Spec /\ \A s \in Signups :
        WF_vars(InsertStaff(s) \/ WaitForRival(s) \/ EmailTaken(s) \/ SignupCommits(s))

-----------------------------------------------------------------------------
(* The shape of every variable. *)
TypeOK ==
    /\ phase \in [Signups -> {"new", "tenant", "waiting", "staff", "created",
                              "taken", "failed"}]
    /\ email \in [Signups -> Emails \cup {Nobody}]
    /\ work \in [Signups -> SUBSET Parts]
    /\ db \in [Signups -> SUBSET Parts]
    /\ inbox \subseteq Signups /\ verified \subseteq Signups
    /\ disabled \subseteq Signups /\ suspended \subseteq Signups
    /\ login \in [Logins -> {"new", "read", "done", "refused"}]
    /\ found \in [Logins -> Signups \cup {Nobody}]
    /\ snapshot \in [Logins -> Flags]
    /\ tokens \subseteq Token
    /\ standing \in [Logins -> SUBSET {"staff", "tenant"}]

(* A workspace is whole or absent: no failure of signup, at any point, leaves
   a tenant without its admin, settings, widget key or verification event. *)
WorkspacesWhole == \A s \in Signups : db[s] \in {{}, Parts}

(* One account per address, whatever signups race for it; login relies on it
   (scalar_one_or_none raises when it meets two rows). *)
OneAccountPerEmail == \A e \in Emails : Cardinality(Account(e)) <= 1

(* Whoever holds an access or refresh token has a committed account whose
   verification mail arrived and was confirmed, along every chain of
   refreshes. *)
TokensNeedConfirmedMail ==
    \A t \in tokens : t.typ \in {"access", "refresh"}
        => t.sub \in inbox /\ t.sub \in verified /\ db[t.sub] = Parts

(* Whatever tokens are around (mailed, issued, refreshed), a staff endpoint lets
   in confirmed accounts only, and grants them what the console offers them. *)
StaffGateHolds ==
    \A t \in tokens : GetCurrentStaff(t) =>
        /\ StaffContext(t).staff_id \in verified
        /\ \A p \in AllPermissions :
              RequirePermission(t, p) <=> HasPermission(RoleClaim(t), p)

(* A login that succeeded saw its account active and its tenant active at
   some time, not always the same, while it ran. *)
LoginSawGoodStanding ==
    \A l \in Logins : login[l] = "done" => standing[l] = {"staff", "tenant"}

(* A signup that waits for a rival's insert gets its answer. *)
SignupsAnswered ==
    \A s \in Signups : phase[s] = "waiting" ~> phase[s] \in {"created", "taken", "failed"}
=============================================================================
