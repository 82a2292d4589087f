---------------------------- MODULE SeededWidget ----------------------------
(***************************************************************************)
(* The widget session endpoint on a database that the seed command fills   *)
(* at the same time: a widget key works from the moment its workspace is   *)
(* committed.                                                              *)
(***************************************************************************)
EXTENDS WidgetSession, Seed

SWInit == WStart({}) /\ SeedInit

(* The key of an entry becomes visible with the rest of its workspace. *)
SeedCommits ==
    /\ InsertWorkspace
    /\ liveKeys' = liveKeys \cup ({Catalog[entry]} \cap Keys)
    /\ UNCHANGED <<rlvars, at, asked, origin, active, domains, minted, sawActive>>

SWNext ==
    \/ WNext /\ UNCHANGED seedVars
    \/ SeedCommits
    \/ (InsertTenants \/ EntryTaken \/ Kill) /\ UNCHANGED vars

SWSpec == SWInit /\ [][SWNext]_<<vars, seedVars>>

SWServe(r) == Serve(r) /\ UNCHANGED seedVars

(* Requests are served; nobody has to run the seed. *)
SWFairSpec ==
    SWSpec /\ \A r \in Requests : WF_<<vars, seedVars>>(SWServe(r))

-----------------------------------------------------------------------------
WholeWorkspace(k) ==
    \E q \in Runs, i \in Entries :
        /\ Catalog[i] = k
        /\ store[q][i] = {"tenant", "staff", "settings", "key", "source", "chunk"}

(* A conversation is minted only where the workspace is whole: create_session
   takes defaults when it finds no settings (widget.py:89), so a key that came
   before its settings would go unnoticed. *)
MintsInWholeWorkspaces == \A r \in minted : WholeWorkspace(asked[r])
=============================================================================
