----------------------------- MODULE SeedProofs -----------------------------
(***************************************************************************)
(* The seed command and the widget endpoint beside it, for any catalog,    *)
(* any number of runs and requests.                                        *)
(***************************************************************************)
EXTENDS SeededWidget, TLAPS

(* Entries are seeded in order, later runs have done nothing yet, and a run
   that is past the first entry has seeded it. *)
SeedInv ==
    /\ SeedTypeOK
    /\ SeededByOneRun
    /\ \A r \in Runs : r > run => \A i \in Entries : store[r][i] = {}
    /\ \A r \in Runs, i \in Entries : "staff" \in store[r][i] => "staff" \in store[r][1]
    /\ entry # 0 => run \in Runs
    /\ entry > 1 => "staff" \in store[run][1]

LEMMA EntriesFromOne == Entries = 1..Len(Catalog) /\ 1 \in Entries
  BY CatalogAssumption DEF Entries

LEMMA SeedInitInv == SeedInit => SeedInv
  BY EntriesFromOne, MaxRunsAssumption
     DEF SeedInit, SeedInv, SeedTypeOK, SeededByOneRun, Runs

LEMMA SeedStepInv == SeedInv /\ [SeedNext]_seedVars => SeedInv'
<1> SUFFICES ASSUME SeedInv, [SeedNext]_seedVars PROVE SeedInv'
  OBVIOUS
<1> USE EntriesFromOne, MaxRunsAssumption DEF SeedInv, SeedTypeOK, Runs
<1>1. CASE InsertTenants
  BY <1>1 DEF InsertTenants, SeededByOneRun
<1>2. CASE InsertWorkspace
  <2>1. entry \in Entries /\ run \in Runs /\ ~Taken(entry)
    BY <1>2 DEF InsertWorkspace
  <2>2. \A q \in Runs, i \in Entries : "staff" \in store[q][i] => q = run
    <3>1. CASE entry = 1
      BY <2>1, <3>1 DEF Taken
    <3>2. CASE entry > 1
      BY <2>1, <3>2 DEF SeededByOneRun
    <3>3. QED
      BY <2>1, <3>1, <3>2
  <2>3. \A q \in Runs, i \in Entries : "staff" \in store'[q][i] => q = run
    BY <2>1, <2>2, <1>2 DEF InsertWorkspace
  <2>4. SeededByOneRun'
    BY <2>3 DEF SeededByOneRun
  <2>5. SeedTypeOK'
    BY <1>2, <2>1 DEF InsertWorkspace, After
  <2>6. \A r \in Runs : r > run' => \A i \in Entries : store'[r][i] = {}
    BY <1>2, <2>1 DEF InsertWorkspace
  <2>7. "staff" \in store'[run][entry]
    BY <1>2, <2>1 DEF InsertWorkspace, SeedRows
  <2>8. "staff" \in store'[run][1]
    <3>1. CASE entry = 1
      BY <2>7, <3>1
    <3>2. CASE entry > 1
      BY <1>2, <2>1, <3>2 DEF InsertWorkspace
    <3>3. QED
      BY <2>1, <3>1, <3>2
  <2>9. \A r \in Runs, i \in Entries : "staff" \in store'[r][i] => "staff" \in store'[r][1]
    BY <2>3, <2>8
  <2>10. QED
    BY <1>2, <2>1, <2>4, <2>5, <2>6, <2>8, <2>9 DEF InsertWorkspace
<1>3. CASE EntryTaken \/ Kill
  BY <1>3 DEF EntryTaken, Kill, SeededByOneRun
<1>4. CASE UNCHANGED seedVars
  BY <1>4 DEF seedVars, SeededByOneRun
<1>5. QED
  BY <1>1, <1>2, <1>3, <1>4 DEF SeedNext

(* Whatever kills the seed command and however often it is run again, the
   workspaces that exist come from one run of seed.py. *)
THEOREM OneRunSeeds == SeedSpec => []SeededByOneRun
<1>1. SeedInv => SeededByOneRun
  BY DEF SeedInv
<1>2. QED
  BY <1>1, SeedInitInv, SeedStepInv, PTL DEF SeedSpec

-----------------------------------------------------------------------------
(* A workspace is absent, a bare tenant or whole; bare from the entry that the
   run has come to onwards. *)
Whole == {"tenant", "staff", "settings", "key", "source", "chunk"}

StoreInv ==
    /\ \A r \in Runs, i \in Entries : store[r][i] \in {{}, {"tenant"}, Whole}
    /\ \A r \in Runs : r > run => \A i \in Entries : store[r][i] = {}
    /\ entry # 0 => \A i \in Entries : i >= entry => store[run][i] = {"tenant"}

(* Live keys, and the keys that requests have found, are of whole workspaces. *)
WholeInv ==
    /\ DOMAIN at = Requests /\ DOMAIN asked = Requests
    /\ minted \subseteq Requests
    /\ \A k \in liveKeys : WholeWorkspace(k)
    /\ \A r \in Requests : at[r] \in {"keyed", "scoped", "checked", "minted"}
                              => WholeWorkspace(asked[r])
    /\ \A r \in minted : at[r] = "minted"

SWInv == SeedInv /\ StoreInv /\ WholeInv

LEMMA WholeIsSeeded == {"tenant"} \cup SeedRows = Whole
  BY DEF SeedRows, Whole

LEMMA SWInitInv == SWInit => SWInv
<1> SUFFICES ASSUME SWInit PROVE SWInv
  OBVIOUS
<1>1. SeedInv
  BY SeedInitInv DEF SWInit
<1>2. StoreInv
  BY EntriesFromOne DEF SWInit, SeedInit, StoreInv
<1>3. WholeInv
  BY DEF SWInit, WStart, WholeInv, Requests
<1>4. QED
  BY <1>1, <1>2, <1>3 DEF SWInv

(* A seed step takes no whole workspace away and leaves the shape of the store. *)
LEMMA SeedKeepsStore ==
    ASSUME SeedInv, StoreInv, SeedNext
    PROVE  /\ StoreInv'
           /\ \A q \in Runs, i \in Entries : store[q][i] = Whole => store'[q][i] = Whole
<1>1. /\ run \in 0..MaxRuns /\ entry \in Entries \cup {0}
      /\ store \in [Runs -> [Entries -> SUBSET ({"tenant"} \cup SeedRows)]]
  BY DEF SeedInv, SeedTypeOK
<1>2. Whole # {} /\ Whole # {"tenant"}
  BY DEF Whole
<1>3. CASE InsertTenants
  <2>1. run + 1 \in Runs /\ \A i \in Entries : store[run + 1][i] = {}
    BY <1>1, <1>3, MaxRunsAssumption DEF InsertTenants, StoreInv, Runs
  <2>2. \A q \in Runs, i \in Entries :
            store'[q][i] = IF q = run + 1 THEN {"tenant"} ELSE store[q][i]
    BY <1>1, <1>3 DEF InsertTenants
  <2>3. StoreInv'
    <3>1. /\ run' = run + 1 /\ entry' = 1 /\ run \in Nat
          /\ \A i \in Entries : store'[run'][i] = {"tenant"}
      BY <1>1, <1>3, <2>1, <2>2, MaxRunsAssumption DEF InsertTenants
    <3>2. \A r \in Runs, i \in Entries : store'[r][i] \in {{}, {"tenant"}, Whole}
      BY <2>2 DEF StoreInv
    <3>3. \A r \in Runs : r > run' => \A i \in Entries : store'[r][i] = {}
      BY <2>2, <3>1 DEF StoreInv, Runs
    <3>4. QED
      BY <3>1, <3>2, <3>3 DEF StoreInv
  <2>4. QED
    BY <1>2, <2>1, <2>2, <2>3
<1>4. CASE InsertWorkspace
  <2>1. entry \in Entries /\ run \in Runs /\ store[run][entry] = {"tenant"}
    BY <1>1, <1>4, EntriesFromOne DEF InsertWorkspace, SeedInv, StoreInv
  <2>2. \A q \in Runs, i \in Entries :
            store'[q][i] = IF q = run /\ i = entry THEN Whole ELSE store[q][i]
    BY <1>1, <1>4, <2>1, WholeIsSeeded DEF InsertWorkspace
  <2>3. StoreInv'
    <3>1. run' = run /\ entry' = After(entry)
      BY <1>4 DEF InsertWorkspace
    <3>2. \A r \in Runs, i \in Entries : store'[r][i] \in {{}, {"tenant"}, Whole}
      BY <2>2 DEF StoreInv
    <3>3. \A r \in Runs : r > run' => \A i \in Entries : store'[r][i] = {}
      BY <2>1, <2>2, <3>1 DEF StoreInv, Runs
    <3>4. ASSUME entry' # 0, NEW i \in Entries, i >= entry'
          PROVE  store'[run'][i] = {"tenant"}
      <4>1. i # entry /\ entry # 0 /\ i >= entry
        BY <2>1, <3>1, <3>4, EntriesFromOne, CatalogAssumption DEF After
      <4>2. store[run][i] = {"tenant"}
        BY <4>1 DEF StoreInv
      <4>3. QED
        BY <2>1, <2>2, <3>1, <4>1, <4>2
    <3>5. QED
      BY <3>2, <3>3, <3>4 DEF StoreInv
  <2>4. QED
    BY <1>2, <2>1, <2>2, <2>3
<1>5. CASE EntryTaken \/ Kill
  BY <1>5 DEF EntryTaken, Kill, StoreInv
<1>6. QED
  BY <1>3, <1>4, <1>5 DEF SeedNext

(* The workspace that a seed step commits is whole. *)
LEMMA SeedCommitsWhole ==
    ASSUME SeedInv, StoreInv, InsertWorkspace, NEW k, k = Catalog[entry]
    PROVE  WholeWorkspace(k)'
<1>1. entry \in Entries /\ run \in Runs /\ store[run][entry] = {"tenant"}
  BY EntriesFromOne DEF SeedInv, StoreInv, InsertWorkspace, SeedTypeOK
<1>2. store'[run][entry] = Whole
  BY <1>1, WholeIsSeeded DEF InsertWorkspace, SeedInv, SeedTypeOK
<1>3. QED
  BY <1>1, <1>2 DEF WholeWorkspace, Whole

LEMMA SeedKeepsWhole ==
    ASSUME SeedInv, StoreInv, SeedNext, NEW k, WholeWorkspace(k)
    PROVE  WholeWorkspace(k)'
<1>1. PICK q \in Runs, i \in Entries : Catalog[i] = k /\ store[q][i] = Whole
  BY DEF WholeWorkspace, Whole
<1>2. store'[q][i] = Whole
  BY <1>1, SeedKeepsStore
<1>3. QED
  BY <1>1, <1>2 DEF WholeWorkspace, Whole

(* What a step of the endpoint does to the requests: one that has found its key
   had found it before or finds it among the live keys. *)
Moves ==
    /\ DOMAIN at' = Requests /\ DOMAIN asked' = Requests
    /\ liveKeys' \subseteq liveKeys
    /\ \A r \in minted' : r \in Requests /\ at'[r] = "minted"
    /\ \A r \in Requests : at'[r] \in {"keyed", "scoped", "checked", "minted"} =>
          /\ asked'[r] = asked[r]
          /\ \/ at[r] \in {"keyed", "scoped", "checked", "minted"}
             \/ asked[r] \in liveKeys

LEMMA WidgetMoves == WholeInv /\ WNext => Moves
<1> SUFFICES ASSUME WholeInv, WNext PROVE Moves
  OBVIOUS
<1> USE DEF WholeInv, Moves
<1>1. ASSUME NEW r \in Requests, NEW k \in Keys, NEW o \in Origins \cup {NoOrigin},
             Arrive(r, k, o)
      PROVE  Moves
  BY <1>1 DEF Arrive, Answer
<1>2. ASSUME NEW r \in Requests, LookupKey(r) PROVE Moves
  BY <1>2 DEF LookupKey, Answer
<1>3. ASSUME NEW r \in Requests, PoolTimeout(r) \/ CheckTenant(r) \/ CheckOrigin(r)
      PROVE  Moves
  BY <1>3 DEF PoolTimeout, CheckTenant, CheckOrigin, Answer
<1>4. ASSUME NEW r \in Requests, CountHit(r) \/ SetTtl(r) PROVE Moves
  BY <1>4 DEF CountHit, SetTtl, wvars
<1>5. ASSUME NEW r \in Requests, Mint(r) PROVE Moves
  BY <1>5 DEF Mint, Answer
<1>6. ASSUME NEW r \in Requests, Fail(r) PROVE Moves
  BY <1>6 DEF Fail, Answer, Holding
<1>7. ASSUME NEW t \in Tenants, Suspend(t) \/ Reactivate(t) PROVE Moves
  BY <1>7 DEF Suspend, Reactivate
<1>8. ASSUME NEW k \in Keys, RetireKey(k) PROVE Moves
  BY <1>8 DEF RetireKey
<1>9. CASE Time
  BY <1>9 DEF Time, wvars
<1>10. QED
  BY <1>1, <1>2, <1>3, <1>4, <1>5, <1>6, <1>7, <1>8, <1>9 DEF WNext

LEMMA SWStepInv == SWInv /\ [SWNext]_<<vars, seedVars>> => SWInv'
<1> SUFFICES ASSUME SWInv, [SWNext]_<<vars, seedVars>> PROVE SWInv'
  OBVIOUS
<1>0. SeedInv /\ StoreInv /\ WholeInv
  BY DEF SWInv
<1>1. CASE WNext /\ UNCHANGED seedVars
  <2>1. SeedInv' /\ StoreInv'
    BY <1>0, <1>1, SeedStepInv DEF StoreInv, seedVars
  <2>2. ASSUME NEW k, WholeWorkspace(k) PROVE WholeWorkspace(k)'
    BY <1>1, <2>2 DEF WholeWorkspace, seedVars
  <2>3. Moves
    BY <1>0, <1>1, WidgetMoves
  <2>4. WholeInv'
    BY <1>0, <2>2, <2>3 DEF WholeInv, Moves
  <2>5. QED
    BY <2>1, <2>4 DEF SWInv
<1>2. CASE SeedCommits
  <2>1. SeedNext
    BY <1>2 DEF SeedCommits, SeedNext
  <2>2. SeedInv' /\ StoreInv'
    BY <1>0, <2>1, SeedStepInv, SeedKeepsStore
  <2>3. ASSUME NEW k, WholeWorkspace(k) PROVE WholeWorkspace(k)'
    BY <1>0, <2>1, <2>3, SeedKeepsWhole
  <2>4. ASSUME NEW k, k = Catalog[entry] PROVE WholeWorkspace(k)'
    BY <1>0, <1>2, <2>4, SeedCommitsWhole DEF SeedCommits
  <2>5. \A k \in liveKeys' : k \in liveKeys \/ k = Catalog[entry]
    BY <1>2 DEF SeedCommits
  <2>6. ASSUME NEW k \in liveKeys' PROVE WholeWorkspace(k)'
    <3>1. CASE k \in liveKeys
      BY <1>0, <2>3, <3>1 DEF WholeInv
    <3>2. CASE k = Catalog[entry]
      BY <2>4, <3>2
    <3>3. QED
      BY <2>5, <3>1, <3>2
  <2>7. at' = at /\ asked' = asked /\ minted' = minted
    BY <1>2 DEF SeedCommits
  <2>8. WholeInv'
    BY <1>0, <2>3, <2>6, <2>7 DEF WholeInv
  <2>9. QED
    BY <2>2, <2>8 DEF SWInv
<1>3. CASE (InsertTenants \/ EntryTaken \/ Kill) /\ UNCHANGED vars
  <2>1. SeedNext
    BY <1>3 DEF SeedNext
  <2>2. SeedInv' /\ StoreInv'
    BY <1>0, <2>1, SeedStepInv, SeedKeepsStore
  <2>3. ASSUME NEW k, WholeWorkspace(k) PROVE WholeWorkspace(k)'
    BY <1>0, <2>1, <2>3, SeedKeepsWhole
  <2>4. WholeInv'
    BY <1>0, <1>3, <2>3 DEF WholeInv, vars, wvars
  <2>5. QED
    BY <2>2, <2>4 DEF SWInv
<1>4. CASE UNCHANGED <<vars, seedVars>>
  <2>1. SeedInv' /\ StoreInv'
    BY <1>0, <1>4, SeedStepInv DEF StoreInv, seedVars
  <2>2. ASSUME NEW k, WholeWorkspace(k) PROVE WholeWorkspace(k)'
    BY <1>4, <2>2 DEF WholeWorkspace, seedVars
  <2>3. WholeInv'
    BY <1>0, <1>4, <2>2 DEF WholeInv, vars, wvars
  <2>4. QED
    BY <2>1, <2>3 DEF SWInv
<1>5. QED
  BY <1>1, <1>2, <1>3, <1>4 DEF SWNext

(* For any catalog, pool and number of requests: create_session mints
   conversations in whole workspaces only, whatever happens to the seed. *)
THEOREM WholeWorkspacesMint == SWSpec => []MintsInWholeWorkspaces
<1>1. SWInv => MintsInWholeWorkspaces
  BY DEF SWInv, WholeInv, MintsInWholeWorkspaces
<1>2. QED
  BY <1>1, SWInitInv, SWStepInv, PTL DEF SWSpec
=============================================================================
