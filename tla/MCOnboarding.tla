---------------------------- MODULE MCOnboarding ----------------------------
(* Small instances of Onboarding for TLC.  The catalogs of permissions and the
   credential encryption beside the tokens have no state: TLC evaluates what is
   said of them once per run. *)
EXTENDS Onboarding, CredentialBinding

SmallIds == UNION {[1..n -> Symbols] : n \in 0..2}

SmallKeys == {[id |-> 1, length |-> 16], [id |-> 1, length |-> 32],
              [id |-> 2, length |-> 32], [id |-> 2, length |-> 20]}

ASSUME CredentialsStayBoundOnSmallIds == CredentialsStayBound(SmallIds, SmallKeys)

(* The roles of the code, and one that an old token may carry. *)
ASSUME CatalogsAgreeOnRoles == CatalogsAgree({"admin", "agent", "platform", "owner"})
=============================================================================
