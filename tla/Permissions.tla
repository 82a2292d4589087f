---------------------------- MODULE Permissions -----------------------------
(***************************************************************************)
(* The catalog of roles, written twice: app/core/permissions.py decides    *)
(* for the API, frontend/src/lib/rbac.ts for what the console shows.       *)
(***************************************************************************)

(* ROLE_PERMISSIONS of the API. *)
ROLE_PERMISSIONS ==
    [admin    |-> {"kb:manage", "records:manage", "settings:manage", "staff:manage",
                   "tags:approve", "tickets:read", "analytics:read", "embed:read",
                   "agents:queue", "tickets:claim", "tickets:reply"},
     agent    |-> {"agents:queue", "tickets:read", "tickets:claim", "tickets:reply"},
     platform |-> {"ops:read", "ops:manage"}]

(* permissions_for: an unknown role, or none, has no permission. *)
PermissionsFor(role) ==
    UNION {ROLE_PERMISSIONS[r] : r \in {role} \cap DOMAIN ROLE_PERMISSIONS}

(* ROLE_PERMISSIONS of the console. *)
ConsolePermissions ==
    [admin    |-> {"kb:manage", "records:manage", "settings:manage", "staff:manage",
                   "tags:approve", "tickets:read", "analytics:read", "embed:read",
                   "agents:queue", "tickets:claim", "tickets:reply"},
     agent    |-> {"agents:queue", "tickets:read", "tickets:claim", "tickets:reply"},
     platform |-> {"ops:read", "ops:manage"}]

HasPermission(role, permission) ==
    role \in DOMAIN ConsolePermissions /\ permission \in ConsolePermissions[role]

(* Every permission either side knows of. *)
AllPermissions ==
    UNION {ROLE_PERMISSIONS[r] : r \in DOMAIN ROLE_PERMISSIONS}
    \cup UNION {ConsolePermissions[r] : r \in DOMAIN ConsolePermissions}

(* Whatever role a token carries, one that neither side knows included, the API
   grants it what the console offers it. *)
CatalogsAgree(roles) ==
    \A role \in roles, p \in AllPermissions :
        p \in PermissionsFor(role) <=> HasPermission(role, p)
=============================================================================
