-------------------------------- MODULE Seed --------------------------------
(***************************************************************************)
(* The seed command app/cli/seed.py: one transaction commits a tenant for  *)
(* each entry of its catalog, then one with_tenant transaction for each    *)
(* entry commits its workspace.  The command may be killed anywhere and is *)
(* run again by hand; runs follow each other.                              *)
(*                                                                         *)
(* Address and widget key of an entry are fixed, and unique in their       *)
(* tables; the entry stands for both.  The addresses end in .test, which   *)
(* EmailStr refuses in the body of a signup, so only seeds conflict.       *)
(***************************************************************************)
EXTENDS Naturals, Sequences

CONSTANTS Catalog,  \* the entries, in the order of _TENANTS
          MaxRuns   \* bound: runs of the command

ASSUME CatalogAssumption ==
    Len(Catalog) \in Nat \ {0} /\ DOMAIN Catalog = 1..Len(Catalog)
ASSUME MaxRunsAssumption == MaxRuns \in Nat

VARIABLES run,    \* the latest run, 0 before the first
          entry,  \* the entry it has come to, 0 when it has ended
          store   \* store[r][i]: what run r has committed of entry i

seedVars == <<run, entry, store>>

Entries == DOMAIN Catalog
Runs == 1..MaxRuns

(* Mutant: the settings are not inserted. *)
SeedRows_NoSettings == {"staff", "key", "source", "chunk"}

(* What the second transaction of an entry inserts. *)
SeedRows == {"staff", "settings", "key", "source", "chunk"}

SeedInit ==
    /\ run = 0 /\ entry = 0
    /\ store = [r \in Runs |-> [i \in Entries |-> {}]]

(* The tenants of all entries are committed before anything else. *)
InsertTenants ==
    /\ entry = 0 /\ run < MaxRuns
    /\ run' = run + 1
    /\ entry' = 1
    /\ store' = [store EXCEPT ![run + 1] = [i \in Entries |-> {"tenant"}]]

(* Some run has the address and the widget key of the entry. *)
Taken(i) == \E r \in Runs : "staff" \in store[r][i]

After(i) == IF i < Len(Catalog) THEN i + 1 ELSE 0

InsertWorkspace ==
    /\ entry # 0 /\ ~Taken(entry)
    /\ store' = [store EXCEPT ![run][entry] = @ \cup SeedRows]
    /\ entry' = After(entry)
    /\ UNCHANGED run

(* Mutant: an entry that is there already is skipped. *)
EntryTaken_Skips ==
    /\ entry # 0 /\ Taken(entry)
    /\ entry' = After(entry)
    /\ UNCHANGED <<run, store>>

(* IntegrityError, which nobody catches: the run ends. *)
EntryTaken ==
    /\ entry # 0 /\ Taken(entry)
    /\ entry' = 0
    /\ UNCHANGED <<run, store>>

(* The process dies; a transaction that is open rolls back. *)
Kill ==
    /\ entry # 0
    /\ entry' = 0
    /\ UNCHANGED <<run, store>>

SeedNext == InsertTenants \/ InsertWorkspace \/ EntryTaken \/ Kill

SeedSpec == SeedInit /\ [][SeedNext]_seedVars

-----------------------------------------------------------------------------
(* The shape of every variable. *)
SeedTypeOK ==
    /\ run \in 0..MaxRuns
    /\ entry \in Entries \cup {0}
    /\ store \in [Runs -> [Entries -> SUBSET ({"tenant"} \cup SeedRows)]]

(* The workspaces that exist all come from one run: what a killed run has left
   out no later run completes, it fails at the first entry that is there. *)
SeededByOneRun ==
    \A q, r \in Runs, i, j \in Entries :
        "staff" \in store[q][i] /\ "staff" \in store[r][j] => q = r
=============================================================================
