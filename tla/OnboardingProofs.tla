-------------------------- MODULE OnboardingProofs --------------------------
(***************************************************************************)
(* Workspace accounts for every set of signups, logins and addresses.      *)
(***************************************************************************)
EXTENDS Onboarding, FiniteSetTheorems, TLAPS

(* The transaction of a signup at each stage, and what it has committed. *)
SignupTrail ==
    \A s \in Signups :
        /\ phase[s] \in {"new", "taken", "failed", "created"} => work[s] = {}
        /\ phase[s] \in {"tenant", "waiting"} => work[s] = {"tenant"}
        /\ phase[s] = "staff" => work[s] = {"tenant", "staff", "settings", "key"}
        /\ db[s] = IF phase[s] = "created" THEN Parts ELSE {}

(* The unique index sees committed and uncommitted rows alike. *)
Indexed(s) == "staff" \in work[s] \/ "staff" \in db[s]

IndexUnique ==
    \A r, s \in Signups : Indexed(r) /\ Indexed(s) /\ email[r] = email[s] => r = s

(* Mail comes from committed events, confirmations from mail. *)
MailTrail ==
    /\ \A s \in inbox : db[s] = Parts
    /\ verified \subseteq inbox
    /\ \A t \in tokens : t.typ = "verify" => t.sub \in inbox

(* What a login between its two reads knows of the account it has found. *)
LoginTrail ==
    \A l \in Logins : login[l] = "read" =>
        /\ found[l] \in Signups
        /\ snapshot[l].verified => found[l] \in verified
        /\ snapshot[l].active => "staff" \in standing[l]
        /\ found[l] \notin suspended => "tenant" \in standing[l]

AccountInv ==
    /\ TypeOK
    /\ SignupTrail
    /\ IndexUnique
    /\ MailTrail
    /\ TokensNeedConfirmedMail
    /\ LoginTrail
    /\ LoginSawGoodStanding

LEMMA AccountInit == Init => AccountInv
BY DEF Init, AccountInv, TypeOK, SignupTrail, IndexUnique, Indexed, MailTrail, Flags, Token,
   TokensNeedConfirmedMail, LoginTrail, LoginSawGoodStanding

(* A step of a signup leaves mail, confirmations, tokens and logins alone, and
   what is committed stays. *)
LEMMA SignupFrame ==
  ASSUME MailTrail, TokensNeedConfirmedMail, LoginTrail, LoginSawGoodStanding, TypeOK,
         UNCHANGED <<inbox, verified, disabled, suspended, loginVars, tokens>>,
         \A s \in Signups : db[s] = Parts => db'[s] = Parts
  PROVE  MailTrail' /\ TokensNeedConfirmedMail' /\ LoginTrail' /\ LoginSawGoodStanding'
<1> USE DEF loginVars
<1>1. MailTrail'
  BY DEF MailTrail, TypeOK
<1>2. TokensNeedConfirmedMail'
  BY DEF TokensNeedConfirmedMail, TypeOK, Token
<1>3. LoginTrail' /\ LoginSawGoodStanding'
  BY DEF LoginTrail, LoginSawGoodStanding
<1> QED
  BY <1>1, <1>2, <1>3

LEMMA InsertTenantStep ==
  ASSUME AccountInv, NEW s \in Signups, NEW e \in Emails, InsertTenant(s, e)
  PROVE  AccountInv'
<1> USE DEF AccountInv, InsertTenant, Advance
<1>1. TypeOK'
  BY DEF TypeOK, Parts, loginVars
<1>2. SignupTrail'
  BY DEF SignupTrail, TypeOK
<1>3. IndexUnique'
  BY DEF SignupTrail, IndexUnique, Indexed, TypeOK
<1> QED
  BY <1>1, <1>2, <1>3, SignupFrame

(* The flush that inserts the row finds no other row with the address. *)
LEMMA InsertStaffStep ==
  ASSUME AccountInv, NEW s \in Signups, InsertStaff(s)
  PROVE  AccountInv'
<1> USE DEF AccountInv, InsertStaff, Advance
<1>1. TypeOK'
  BY DEF TypeOK, Parts, loginVars
<1>2. SignupTrail'
  BY DEF SignupTrail, TypeOK
<1>3. IndexUnique'
  BY DEF IndexUnique, Indexed, Rival, TypeOK
<1> QED
  BY <1>1, <1>2, <1>3, SignupFrame

LEMMA WaitForRivalStep ==
  ASSUME AccountInv, NEW s \in Signups, WaitForRival(s)
  PROVE  AccountInv'
<1> USE DEF AccountInv, WaitForRival, Advance
<1>1. TypeOK'
  BY DEF TypeOK, loginVars
<1>2. SignupTrail'
  BY DEF SignupTrail, TypeOK
<1>3. IndexUnique'
  BY DEF IndexUnique, Indexed
<1> QED
  BY <1>1, <1>2, <1>3, SignupFrame

(* An open transaction is undone, whatever the reason. *)
LEMMA UndoStep ==
  ASSUME AccountInv, NEW s \in Signups, NEW outcome \in {"taken", "failed"},
         phase[s] \in {"tenant", "waiting", "staff"}, Undo(s, outcome)
  PROVE  AccountInv'
<1> USE DEF AccountInv, Undo, Advance
<1>1. TypeOK'
  BY DEF TypeOK, loginVars
<1>2. SignupTrail'
  BY DEF SignupTrail, TypeOK
<1>3. IndexUnique'
  BY DEF IndexUnique, Indexed, TypeOK
<1> QED
  BY <1>1, <1>2, <1>3, SignupFrame

LEMMA SignupCommitsStep ==
  ASSUME AccountInv, NEW s \in Signups, SignupCommits(s)
  PROVE  AccountInv'
<1> USE DEF AccountInv, SignupCommits, Advance
<1>0. work[s] \cup {"event"} = Parts /\ "staff" \in work[s]
  BY DEF SignupTrail, Parts
<1>1. TypeOK'
  BY <1>0 DEF TypeOK, loginVars
<1>2. SignupTrail'
  BY <1>0 DEF SignupTrail, TypeOK
<1>3. IndexUnique'
  BY <1>0 DEF IndexUnique, Indexed, TypeOK
<1>4. \A r \in Signups : db[r] = Parts => db'[r] = Parts
  BY <1>0 DEF TypeOK
<1> QED
  BY <1>1, <1>2, <1>3, <1>4, SignupFrame

(* What is left of the invariant when the four tables of signup do not move. *)
LEMMA SignupStands ==
  ASSUME SignupTrail, IndexUnique, UNCHANGED signupVars
  PROVE  SignupTrail' /\ IndexUnique'
BY DEF SignupTrail, IndexUnique, Indexed, signupVars

LEMMA DeliverMailStep ==
  ASSUME AccountInv, NEW s \in Signups, DeliverMail(s)
  PROVE  AccountInv'
<1> USE DEF AccountInv, DeliverMail
<1>0. db[s] = Parts
  BY DEF SignupTrail
<1>1. TypeOK'
  BY DEF TypeOK, Token, signupVars, loginVars
<1>2. MailTrail'
  BY <1>0 DEF MailTrail, signupVars
<1>3. TokensNeedConfirmedMail'
  BY DEF TokensNeedConfirmedMail, signupVars
<1>4. LoginTrail' /\ LoginSawGoodStanding'
  BY DEF LoginTrail, LoginSawGoodStanding, loginVars
<1> QED
  BY <1>1, <1>2, <1>3, <1>4, SignupStands

(* A verify token was mailed, so its account has mail. *)
LEMMA VerifyEmailStep ==
  ASSUME AccountInv, NEW t \in tokens, VerifyEmail(t)
  PROVE  AccountInv'
<1> USE DEF AccountInv, VerifyEmail
<1>0. t.sub \in inbox /\ t.sub \in Signups
  BY DEF MailTrail, TypeOK
<1>1. TypeOK'
  BY <1>0 DEF TypeOK, signupVars, loginVars
<1>2. MailTrail'
  BY <1>0 DEF MailTrail, signupVars
<1>3. TokensNeedConfirmedMail'
  BY DEF TokensNeedConfirmedMail, signupVars
<1>4. LoginTrail' /\ LoginSawGoodStanding'
  BY DEF LoginTrail, LoginSawGoodStanding, loginVars
<1> QED
  BY <1>1, <1>2, <1>3, <1>4, SignupStands

LEMMA RefreshStep ==
  ASSUME AccountInv, NEW t \in tokens, Refresh(t)
  PROVE  AccountInv'
<1> USE DEF AccountInv, Refresh, Pair
<1>0. t.sub \in inbox /\ t.sub \in verified /\ db[t.sub] = Parts /\ t.sub \in Signups
  BY DEF TokensNeedConfirmedMail, TypeOK
<1>1. TypeOK'
  BY <1>0 DEF TypeOK, Token, signupVars, loginVars
<1>2. MailTrail'
  BY <1>0 DEF MailTrail, signupVars
<1>3. TokensNeedConfirmedMail'
  BY <1>0 DEF TokensNeedConfirmedMail, signupVars
<1>4. LoginTrail' /\ LoginSawGoodStanding'
  BY DEF LoginTrail, LoginSawGoodStanding, loginVars
<1> QED
  BY <1>1, <1>2, <1>3, <1>4, SignupStands

(* A tenant reactivated between the two reads of a login was active for it. *)
LEMMA AdministrateStep ==
  ASSUME AccountInv, NEW s \in Signups, Administrate(s)
  PROVE  AccountInv'
<1> USE DEF AccountInv, Administrate
<1>1. TypeOK'
  BY DEF TypeOK, signupVars
<1>2. MailTrail' /\ TokensNeedConfirmedMail'
  BY DEF MailTrail, TokensNeedConfirmedMail, signupVars
<1>3. LoginTrail'
  <2> SUFFICES ASSUME NEW l \in Logins, login[l] = "read"
               PROVE  /\ snapshot[l].active => "staff" \in standing'[l]
                      /\ found[l] \notin suspended' => "tenant" \in standing'[l]
    BY DEF LoginTrail
  <2>1. standing'[l] = IF found[l] = s /\ s \notin suspended' THEN standing[l] \cup {"tenant"}
                                                              ELSE standing[l]
    OBVIOUS
  <2>2. found[l] # s => (found[l] \in suspended' <=> found[l] \in suspended)
    OBVIOUS
  <2> QED
    BY <2>1, <2>2 DEF LoginTrail
<1>4. LoginSawGoodStanding'
  BY DEF LoginSawGoodStanding
<1> QED
  BY <1>1, <1>2, <1>3, <1>4, SignupStands

LEMMA RefuseUnknownStep ==
  ASSUME AccountInv, NEW l \in Logins, NEW e \in Emails, RefuseUnknown(l, e)
  PROVE  AccountInv'
<1> USE DEF AccountInv, RefuseUnknown
<1>1. TypeOK'
  BY DEF TypeOK, signupVars
<1>2. MailTrail' /\ TokensNeedConfirmedMail'
  BY DEF MailTrail, TokensNeedConfirmedMail, signupVars
<1>3. LoginTrail' /\ LoginSawGoodStanding'
  BY DEF LoginTrail, LoginSawGoodStanding, TypeOK
<1> QED
  BY <1>1, <1>2, <1>3, SignupStands

LEMMA ReadStaffStep ==
  ASSUME AccountInv, NEW l \in Logins, NEW s \in Signups, ReadStaff(l, s)
  PROVE  AccountInv'
<1> USE DEF AccountInv, ReadStaff
<1>1. TypeOK'
  BY DEF TypeOK, signupVars, Flags
<1>2. MailTrail' /\ TokensNeedConfirmedMail'
  BY DEF MailTrail, TokensNeedConfirmedMail, signupVars
<1>3. LoginTrail'
  BY DEF LoginTrail, TypeOK
<1>4. LoginSawGoodStanding'
  BY DEF LoginSawGoodStanding, TypeOK
<1> QED
  BY <1>1, <1>2, <1>3, <1>4, SignupStands

LEMMA DecideStep ==
  ASSUME AccountInv, NEW l \in Logins, NEW passwordOk \in BOOLEAN, Decide(l, passwordOk)
  PROVE  AccountInv'
<1> USE DEF AccountInv, Decide, MayLogIn, Pair
<1>0. found[l] \in Signups
  BY DEF LoginTrail
<1>1. TypeOK'
  BY <1>0 DEF TypeOK, signupVars, Token
<1>2. MailTrail'
  BY DEF MailTrail, signupVars
<1>3. TokensNeedConfirmedMail'
  BY DEF TokensNeedConfirmedMail, MailTrail, LoginTrail, signupVars
<1>4. LoginTrail'
  BY DEF LoginTrail, TypeOK
<1>5. LoginSawGoodStanding'
  <2> SUFFICES ASSUME NEW k \in Logins, login'[k] = "done"
               PROVE  standing[k] = {"staff", "tenant"}
    BY DEF LoginSawGoodStanding
  <2>1. CASE login[k] = "done"
    BY <2>1 DEF LoginSawGoodStanding
  <2>2. CASE login[k] # "done"
    BY <2>2 DEF LoginTrail, TypeOK
  <2> QED
    BY <2>1, <2>2
<1> QED
  BY <1>1, <1>2, <1>3, <1>4, <1>5, SignupStands

LEMMA AccountStutter == AccountInv /\ UNCHANGED vars => AccountInv'
BY DEF AccountInv, vars, TypeOK, SignupTrail, IndexUnique, Indexed, MailTrail,
   TokensNeedConfirmedMail, LoginTrail, LoginSawGoodStanding

LEMMA AccountNext == AccountInv /\ [Next]_vars => AccountInv'
<1> SUFFICES ASSUME AccountInv, [Next]_vars PROVE AccountInv'
  OBVIOUS
<1>1. CASE UNCHANGED vars
  BY <1>1, AccountStutter
<1>2. ASSUME NEW s \in Signups,
             \/ \E e \in Emails : InsertTenant(s, e)
             \/ InsertStaff(s) \/ WaitForRival(s) \/ SignupCommits(s)
             \/ DeliverMail(s) \/ Administrate(s)
      PROVE  AccountInv'
  BY <1>2, InsertTenantStep, InsertStaffStep, WaitForRivalStep, SignupCommitsStep,
     DeliverMailStep, AdministrateStep
<1>3. ASSUME NEW s \in Signups, EmailTaken(s) \/ SignupFails(s) PROVE AccountInv'
  BY <1>3, UndoStep DEF EmailTaken, SignupFails
<1>4. ASSUME NEW t \in tokens, VerifyEmail(t) \/ Refresh(t) PROVE AccountInv'
  BY <1>4, VerifyEmailStep, RefreshStep
<1>5. ASSUME NEW l \in Logins,
             \/ \E e \in Emails : RefuseUnknown(l, e)
             \/ \E s \in Signups : ReadStaff(l, s)
             \/ \E passwordOk \in BOOLEAN : Decide(l, passwordOk)
      PROVE  AccountInv'
  BY <1>5, RefuseUnknownStep, ReadStaffStep, DecideStep
<1> QED
  BY <1>1, <1>2, <1>3, <1>4, <1>5 DEF Next

LEMMA AccountInvHolds == Spec => []AccountInv
<1> QED
  BY AccountInit, AccountNext, PTL DEF Spec

-----------------------------------------------------------------------------
(* Every variable keeps its shape along signup, mail, login and refresh. *)
THEOREM TypeCorrect == Spec => []TypeOK
<1>1. AccountInv => TypeOK
  BY DEF AccountInv
<1> QED
  BY <1>1, AccountInvHolds, PTL

(* However a signup ends or breaks off, its workspace is whole or absent: signup
   of app/api/v1/auth.py commits its five parts together. *)
THEOREM SignupsAreWhole == Spec => []WorkspacesWhole
<1>1. AccountInv => WorkspacesWhole
  BY DEF AccountInv, SignupTrail, WorkspacesWhole
<1> QED
  BY <1>1, AccountInvHolds, PTL

(* Any number of signups that race for one address leave one account of it: the
   unique index counts the rows of open transactions too. *)
THEOREM OneSignupWins == Spec => []OneAccountPerEmail
<1>1. ASSUME AccountInv, NEW e \in Emails PROVE Cardinality(Account(e)) <= 1
  <2>1. CASE Account(e) = {}
    BY <2>1, FS_EmptySet
  <2>2. CASE Account(e) # {}
    <3>1. PICK s \in Account(e) : TRUE
      BY <2>2
    <3>2. Account(e) = {s}
      BY <1>1, <3>1 DEF Account, AccountInv, IndexUnique, Indexed
    <3> QED
      BY <3>2, FS_Singleton
  <2> QED
    BY <2>1, <2>2
<1>2. AccountInv => OneAccountPerEmail
  BY <1>1 DEF OneAccountPerEmail
<1> QED
  BY <1>2, AccountInvHolds, PTL

(* No chain of logins and refreshes yields a token for an account whose address
   was not confirmed from its own mail. *)
THEOREM TokensComeFromConfirmedMail == Spec => []TokensNeedConfirmedMail
<1>1. AccountInv => TokensNeedConfirmedMail
  BY DEF AccountInv
<1> QED
  BY <1>1, AccountInvHolds, PTL

(* login reads the staff row, then the tenant; each of its two conditions held
   at some time between the first read and the verdict. *)
THEOREM LoginsSawGoodStanding == Spec => []LoginSawGoodStanding
<1>1. AccountInv => LoginSawGoodStanding
  BY DEF AccountInv
<1> QED
  BY <1>1, AccountInvHolds, PTL

(* permissions_for and hasPermission agree about every role, also about one that
   neither permissions.py nor rbac.ts lists. *)
LEMMA CatalogsAgreeOnEveryRole ==
  ASSUME NEW roles
  PROVE  CatalogsAgree(roles)
<1>1. ROLE_PERMISSIONS = ConsolePermissions
  BY DEF ROLE_PERMISSIONS, ConsolePermissions
<1>2. ASSUME NEW role, NEW p
      PROVE  p \in PermissionsFor(role) <=> HasPermission(role, p)
  <2>1. CASE role \in DOMAIN ROLE_PERMISSIONS
    <3>1. PermissionsFor(role) = ROLE_PERMISSIONS[role]
      BY <2>1 DEF PermissionsFor
    <3> QED
      BY <1>1, <2>1, <3>1 DEF HasPermission
  <2>2. CASE role \notin DOMAIN ROLE_PERMISSIONS
    <3>1. PermissionsFor(role) = {}
      BY <2>2 DEF PermissionsFor
    <3> QED
      BY <1>1, <2>2, <3>1 DEF HasPermission
  <2> QED
    BY <2>1, <2>2
<1> QED
  BY <1>2 DEF CatalogsAgree

(* get_current_staff and require_permission of app/api/deps.py let in confirmed
   accounts and grant them what the console shows them. *)
THEOREM StaffGateIsSound == Spec => []StaffGateHolds
<1>1. ASSUME AccountInv, NEW t \in tokens, GetCurrentStaff(t)
      PROVE  /\ StaffContext(t).staff_id \in verified
             /\ \A p \in AllPermissions :
                   RequirePermission(t, p) <=> HasPermission(RoleClaim(t), p)
  <2>1. t.typ = "access" /\ t.sub \in verified
    BY <1>1 DEF AccountInv, TokensNeedConfirmedMail, GetCurrentStaff
  <2>2. CatalogsAgree({RoleClaim(t)})
    BY CatalogsAgreeOnEveryRole
  <2> QED
    BY <1>1, <2>1, <2>2 DEF CatalogsAgree, StaffContext, RequirePermission
<1>2. AccountInv => StaffGateHolds
  BY <1>1 DEF StaffGateHolds
<1> QED
  BY <1>2, AccountInvHolds, PTL
=============================================================================
