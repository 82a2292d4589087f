# Formal models of the AI customer support agent

TLA+ modules beside the code of a multi-tenant customer support service: a
FastAPI backend on Postgres (row-level security) and Redis, Celery workers, and
a React console. The modules model the parts of the program that decide
something under concurrency or failure; TLC checks small instances of them, and
TLAPS proves the central results for every value of the constants.

`PROJECT.json` relates every modelled definition to its source lines, and lists
the runs, the hazards, the findings and the theorems by name.

## 1. The system

| Part | State it keeps | Operations | Talks to |
|---|---|---|---|
| Ticketing (`app/domain/ticketing`) | `ticket` row (state, three stamps), `ticket_event` audit rows | `is_allowed`, `assert_allowed`, `apply_transition` | runs in a caller's transaction |
| Tenant isolation (`app/infra/db/session.py`, `engine.py`, `base.py`, `app/api/deps.py`, the policies of the migration) | the setting `app.tenant_id` of each pooled connection, the pools | `set_tenant_guc`, `with_tenant`, `get_db`, `auth_bootstrap_session`, `platform_bypass` | every component that touches the database |
| Rate limiter (`app/core/ratelimit.py`) | a counter with a ttl per key, in Redis | `hit`, `current`, `reset` | called inside database transactions |
| Widget session (`app/api/v1/widget.py`) | `conversation` rows | `create_session` | isolation harness, rate limiter |
| Accounts (`app/api/v1/auth.py`) | tenant, staff, settings, widget key; signed tokens held by clients | signup, verify-email, login, refresh, logout | isolation harness, outbox, browser |
| Outbox (`app/core/events.py`, `models/outbox.py`, `email/smtp.py`) | `outbox`, `email_log` | `emit`, `send` | the caller's transaction; a relay that is not in the repository |
| Browser session (`frontend/src/lib/auth.ts`, `api.ts`, `app/providers.tsx`, `router.tsx`) | access token in memory, shared refresh promise, refresh cookie, provider state | boot, login, logout, refresh, retry after 401 | auth endpoints |
| Identity verification (`app/domain/records/schemas.py`) | none | `verify_record`, `matches_key`, `max_verify_attempts` | rate limiter (attempt counter) |
| Streamed turn (`app/schemas/sse.py`, `frontend/src/lib/sse.ts`, `types/sse.ts`) | the reader's buffer | frame, split, parse | chat endpoint (not in the repository) |
| Seed command (`app/cli/seed.py`) | rows of two tenants | one transaction for the tenants, one more each | isolation harness, widget session (its keys) |
| Staff gate (`app/api/deps.py`, `core/permissions.py`, `frontend/src/lib/rbac.ts`) | none; a catalog on each side | `get_current_staff`, `require_permission`, `hasPermission` | tokens of the accounts |
| Credential encryption (`core/security.py`) | none | `encrypt_credential`, `decrypt_credential` | connectors (not in the repository) |
| Queues (`app/infra/queue`) | broker configuration | routing, redelivery | tasks (not in the repository) |
| Security primitives, egress guard, ports, configuration, shell | constants or none | pure functions, I/O | |

### What is hard here, and what makes each part correct

* **Ticketing.** Request handlers, tasks and sweeps move one ticket at the same
  time. The only protection is `UPDATE ... WHERE id = :id AND state =
  :expected` at READ COMMITTED: the loser waits for a row lock and must see its
  guard fail afterwards. Correct means: one winner per visit to a state, an
  audit trail that is exactly the history, no move outside the whitelist, no
  AI move on an escalated ticket however late its call arrives, and, when two
  writers lock two rows crosswise, a victim that loses all it had won.
* **Isolation.** Connections are reused by other tenants, after commits,
  rollbacks, aborted statements and disconnects. Correct means: an app
  transaction reads rows of its own tenant only, and every committed row
  belongs to its writer's context or to an audited bypass, and only such a
  transaction takes it away again, even where everybody may read it (`widget_key`).
* **Seed.** Several commits for what is meant to be there together, and no check
  for what is there already. Correct means: what the widget serves is a whole
  workspace, and two half-done runs never mix.
* **Rate limiter.** Two Redis commands with time, other callers and failures
  between them. Correct means: bounded admissions per window, and no key that
  is denied for ever.
* **Widget session.** Check (tenant, key) and act (insert) with a Redis
  round-trip in between and a pooled connection held all along.
* **Accounts.** Several flushes in one transaction, a unique index that makes
  rivals wait, a login that combines two reads, a refresh that looks only at
  the old token, three kinds of tokens under one signature, and a catalog of
  permissions that is written twice.
* **Streamed turn.** The network cuts frames anywhere, the event union is written
  twice, and the reader is two nested loops over a buffer. Correct means: what
  the backend sent, in order and with all fields, and an end to every call.
* **Verification.** Each field has its own notion of "equal", a template may
  offer two, and a cell may hold anything, a phone field without a digit included.
  Correct means: the name of a field decides how its content may be written, the
  options do not shadow each other, and a key proves nothing.
* **Browser.** Promises, cookies and clicks interleave: cookie and token of one
  answer arrive at different times, and everybody shares one refresh.

## 2. Modules

| Module | Models | Uses |
|---|---|---|
| `TicketWorkflow` | states, actors, the whitelist and the AI clamp; legal events and paths | |
| `TicketLifecycle` | abstract specification: tickets move along whitelisted edges, history records them | `TicketWorkflow` |
| `TicketTransitions` | `apply_transition` by concurrent writers in transactions | `TicketWorkflow`; refines `TicketLifecycle` |
| `TicketTransitionsProofs` | theorems | `TicketTransitions` |
| `TenantContext` | pools, the tenant setting, policies of both kinds of tables, bypass | |
| `TenantContextProofs` | theorems | `TenantContext` |
| `RateLimit` | the limiter and Redis' clock | |
| `WidgetSession` | `create_session`, composed with the limiter | `RateLimit` |
| `Seed` | the seed command, killed and run again | |
| `WidgetSessionProofs` | theorems, of the limiter and of the endpoint | `WidgetSession` |
| `SeededWidget` | the widget endpoint on a database that is being seeded | `WidgetSession`, `Seed` |
| `SeedProofs` | theorems | `SeededWidget` |
| `Permissions` | both catalogs of roles and their lookups | |
| `Onboarding` | signup, verify-email, login, refresh, the mail in between, the staff gate | `Permissions` |
| `OnboardingProofs` | theorems | `Onboarding` |
| `CredentialBinding` | encryption of connector credentials, its associated data | |
| `FrontendAuth` | one browser tab against the auth endpoints | |
| `FrontendAuthProofs` | theorems | `FrontendAuth` |
| `RecordVerify` | record templates, comparison rules, attempt limit, with reference definitions | |
| `RuleProofs` | theorems about the components without a state | `RecordVerify`, `CredentialBinding` |
| `SSEEvents` | the event union as rendered and as parsed | |
| `EventChannel` | abstract specification: events arrive in order, a resolved call has them all | |
| `ChatStream` | frames, chunks and `streamTurn` | `SSEEvents`; refines `EventChannel` |
| `ChatStreamProofs` | theorems | `ChatStream` |
| `MC*` | values of the constants for TLC | |

### TicketTransitions

A writer is a session. `Begin`, `Commit`, `Rollback` are the transaction that
`with_tenant` or `get_db` opens. A call of `apply_transition` is `Stamp`
(whitelist passed, `now` read) or `Refuse` (`TransitionNotAllowed`), then
`Update`, the single SQL statement, which wins (`rowcount == 1`, the event is
added to the session), loses (`rowcount == 0`) or blocks on a row lock; a
blocked statement continues in `Wake`, where Postgres evaluates `WHERE` again on
the row's latest version. `row`/`audit` are what is committed, `dirty`/`pending`
what the holder of the row lock has written. Side effects that callers fire when
`applied` is true are not in the repository; they live in the same transaction
(outbox) or after it, and `audit` stands for them.

Assumed: the application's and the database's clock agree (`clock`). Nobody
else writes `ticket.state`; the doc of `apply_transition` calls it "the single
legal way".

### TenantContext

`setting[c]` is what `current_setting('app.tenant_id', true)` returns on
connection `c`. Before its first use it is NULL; `SET LOCAL` is undone at the end
of a transaction, but the name stays known to the connection and then reads as
the empty string. The policy casts the value to uuid: NULL lets no row through,
the empty string is an error (`SelectFails`), which aborts the transaction. The
planner evaluates the cast, so the error does not depend on the rows. The three
ways to open a transaction are `OpenApp`, `OpenBypass` and `OpenBootstrap`;
`SetTenant` happens at most once per transaction, as in every caller. Inserts
take their tag from the setting or bring their own (`Insert`, `InsertFails`);
with the bypass role no policy applies. `Delete` takes away a row that passes
`USING`, and waits while another open transaction has deleted it; an `UPDATE` is
a `Delete` and an `Insert`, as it is in Postgres. `public` says which table the
statements of a behaviour go to: `widget_key` has a second policy, for SELECT
only, which lets every row through and needs no setting, so `Select` never fails
there while `Delete` and `Insert` obey the tenant.

### RateLimit and WidgetSession

`Incr` and `Expire` are the two commands of `hit`; `Crash` loses the caller
between them; `Tick` is Redis' clock. `age` is history: the time since a hit,
against which budgets are measured. `Reset` starts a new budget on purpose (that
is what it is for), so it ages the earlier hits out. `WidgetSession` extends the
limiter and gives each request one hit. Its actions are the stretches of
`create_session` between two awaits; a connection is held from the first
statement to the end (`Holding`). Which origins end in which allowed domain is a
constant relation (`Matches`). The requests of an instance come from one client
address, so the widget key stands for the rate key.

### Onboarding

A signup names everything it creates. `InsertTenant` and `InsertStaff` are the
two flushes of its transaction, `WaitForRival` the wait on the unique index of
`staff.email`, `EmailTaken` the `IntegrityError`, `SignupCommits` the outbox
event and the commit. `DeliverMail` is the relay (external). `ReadStaff` and
`Decide` are the two reads of login; administration happens between them.
`standing` is history: what was true of the account and of the tenant at some
time while the login ran.

`GetCurrentStaff`, `StaffContext` and `RequirePermission` are the gate in front of
the staff endpoints. They look at the token alone, so they are operators on
`tokens`. The role in a token is the one of its staff row; signup makes admins
only, and the staff management that would make others is not in the repository.

### CredentialBinding

The cipher is assumed to open a box with what it was sealed with and with
nothing else. What the code adds is one string joined from two ids
(`f"{tenant_id}:{connector_id}"`), and `CredentialsStayBound` says that no two
pairs of ids join to the same string. It has no state: every run of
`MCOnboarding` evaluates it once for ids of up to two characters
(`ASSUME CredentialsStayBoundOnSmallIds`); the proof covers every length.

### Seed and SeededWidget

`InsertTenants` is the first transaction of a run, `InsertWorkspace` the
transaction of one entry, `EntryTaken` the `IntegrityError` that ends the run
when the address is there, `Kill` the end of the process between two commits. The
tenant of an entry has a new id in each run, so `store[r][i]` keeps what each run
has committed. Runs follow each other; two operators seeding at the same moment
are left out. `SeededWidget` makes the key of an entry live in the step that
commits its workspace and runs `WidgetSession` beside it, from a database without
keys.

### FrontendAuth

An action is one turn of the event loop with all promise callbacks it triggers,
so that settling a shared refresh continues everybody who awaits it. The client
sends whenever it is asked to; the pages that will ask it are routed behind
`RequireAuth`, so `Send` has its condition. Exchanges
are sent, their headers arrive (the browser stores the cookie), their body
arrives (the script sees the token); each step may fail. The server keeps no
session and may find any token expired, so 401 is always possible.
`openapi-fetch` (0.11) passes to the middleware the very request it has given to
`fetch`; a body is used up by then, and building a second `Request` from it
throws. React's `role` is written with `authenticated` and read by nobody; it is
left out. A reload of the page, a new `Init` that keeps the cookie, is covered by
the initial states (any cookie); exchanges still under way at a reload are not.

### RecordVerify

A text, typed or from a cell of an uploaded table, is spaces around it, its digits
and the rest of it, the text with its digits blanked out. The three are
independent, so any field may hold any text: phone fields without a digit, names
with the digits of a phone number. `Strip`, `Casefold` and `Digits` are what the
Python conversions do to the parts. Lower case is a constant function on the rests.
The registry is translated template by template without the fields that
verification does not look at (`returned_fields`, `optional_fields`, `enums`).
Records are the rows of a table with any columns, some cells empty; the columns do
not come from the registry, so a key or an alias that it lacks is missed.
`Respellings` says from the name of a field, not from the rule the registry gives
it, how its content may be written.

What follows for digits: a value without any verifies a record whose phone field
has none either ("n/a" and "unknown" are equal there), and never one whose listed
fields all have some (`DigitsDecide`). Upload validation, which could refuse such a
field, is not in the repository.

### SSEEvents, EventChannel and ChatStream

`SSEEvent` is the set of events the backend can build, with one or two values per
field, as many as the parser tells apart; `Payload` drops the fields without a
value, as `exclude_none` does, and `ParseSSEEvent` fills them in again. On the wire
a JSON text is two symbols, so that a chunk can end inside it; `json.dumps` escapes
newlines and everything outside ASCII, so neither a blank line nor a UTF-8
sequence can be cut in a payload. One value is left out: a `float` may be NaN or
infinite, which `json.dumps` writes and `JSON.parse` refuses; the model takes
`advisory_confidence` to be a number. An action of `ChatStream` is a stretch of
`streamTurn` between two awaits, or one turn of its inner loop. `Refused`,
`NetworkFails`, `Abort`, a payload that does not parse and a handler that throws are
the ways a call is rejected. The chat endpoint is external: it streams any events
in any order and ends. So is a retry with the same `client_msg_id`, which would be
another call of `streamTurn`.

## 3. Runs

All bounds are in the `.cfg` files.

| Run | Instance | Shows |
|---|---|---|
| `ticket_races` | 1 ticket, 2 writers, 9 kinds of requests, one of them refused, 8 calls, 2 instants | the audit trail replays; one winner per visit; escalated tickets stay with humans; the stamps agree with the audit; `TicketLifecycle` is implemented |
| `ticket_pairs` | 2 tickets, 2 writers, 4 calls | transactions that move two tickets, and deadlock victims, implement `TicketLifecycle` too |
| `tenant_pool` | 3 transactions, 2 tenants, 2 app connections, 1 bypass connection, either kind of table | isolation on reused connections; rows of others survive |
| `tenant_no_context` | expected violation | finding 2 below |
| `rate_limit_window` | 4 hits, limit 1, window 2, one lost caller | twice the limit at most; counters carry a ttl and disappear unless a caller was lost |
| `rate_limit_lost_caller` | expected violation | finding 1 below |
| `widget_budget` | 3 requests, limit 1, window 2, pool of 2 | the budget of conversations; suspended tenants stop minting |
| `widget_answered` | 2 requests, pool of 1, a catalog of 2 entries, 2 seed runs | requests that hold a connection while they await Redis are all answered; conversations are minted in whole workspaces, which all come from one run |
| `onboarding_accounts` | 3 signups, 2 addresses, 1 login | whole workspaces, one account per address, tokens only for confirmed accounts, what a login saw, the staff gate, answers for waiting signups; credentials stay bound; both catalogs of permissions agree |
| `browser_session` | 2 requests (one with a body), 3 refreshes, 2 people, 1 login, 1 logout | one refresh at a time, retries with another token, tab and cookie agree and logout lasts unless exchanges cross, boot and requests end |
| `chat_stream` | 2 events out of every kind, each numbered or not, chunks of any length | both sides' unions agree, the channel is implemented, the call ends |
| `browser_retry` | expected violation | finding 3 below |

**Why the bounds are enough.** A race on a row needs two writers and one ticket; a
deadlock two of each. Eight calls take a ticket from `new` through escalation,
agent, closing, reopening and back to the AI, with one call to spare for a late
one; longer histories repeat states of the ticket, and the theorems cover them.
Two instants tell "before" from "after". Cross-tenant reuse needs two tenants on
one connection; a third transaction lets one run while another connection is
reused. The seam between two windows needs a window of two ticks and three hits
with limit 1. Three signups are the smallest number in which one waiter is
overtaken by another. A seed run that is killed after its first entry and a second
run that meets this entry need two entries and two runs. In the browser, three refreshes are the boot-time one and
one for each request, so a late 401 can start a second refresh. Two events are enough for a
chunk that holds the end of one frame and the start or the whole of the next. The
rules of `RecordVerify` are constant formulas: every run of `MCRateLimit` evaluates
them once (`ASSUME RulesAgreeOnSmallTables`, `AliasWorksOnSmallTable`: every
template on the columns of each, three rests of which two differ in case only, one
digit or none) and takes the limit for healthcare as the limit of its counter. Symmetry is used
for writers, tickets, transactions, tenants and requests, which only name
themselves, and only in runs without temporal properties other than a safety one
(the ticket runs check the refinement, which has no fairness, and `Writers` and
`Tickets` enter it symmetrically).

**Deadlock** is checked in the ticket, rate limit and widget runs (the seed beside
the widget included: Redis' clock never stops). The
transactions of `TenantContext`, the signups of `Onboarding` and the exchanges of
`FrontendAuth` are finitely many and end, and so does a streamed turn; those runs
allow the end.

**Fairness.** `TicketTransitions` has none: that a blocked statement gets an answer
is Postgres' doing (lock queues, deadlock detector), whatever `apply_transition`
does. `RateLimit`: Redis' clock runs and a
caller that is not lost sends its `EXPIRE`. `SeededWidget`: the event loop
serves requests and Postgres and Redis answer; nothing is assumed of the pool's
timeout, so the answer does not come from it, nor of anybody who runs the seed.
`Onboarding`: a signup that can continue does, and Postgres ends index waits. `FrontendAuth`: the boot effect
runs and the browser ends each exchange with an answer or an error; nothing is
assumed of what people click. `ChatStream`: the browser runs `streamTurn`, and the
endpoint's response is finite (the endpoint is external).

**Findings.**
1. `hit` sets the ttl only after an `INCR` that returned 1; a caller lost between
   the two commands leaves a counter that never expires, and its key is denied
   once the limit is reached (`ratelimit.py:18`, docstring at `:15`). While
   no caller is lost, `CountersCarryTtl` and `CountersExpire` hold.
2. Without tenant context, a read on a connection that has served a tenant fails
   with a cast error instead of returning no rows (`0001_initial.py:45`; comment
   and assertion at `tests/test_rls_isolation.py:64`, `:69`; `session.py:8`). No
   row leaks: `ReadsOwnTenant` holds.
3. The retry after a 401 throws for a request with a body
   (`frontend/src/lib/api.ts:27`, comment at `:24`).

Remarks without a run.
* The audit row of `platform_bypass` belongs to the transaction of the work, so a
  bypass that reads and is then rolled back leaves none (`session.py:66`, which
  says "can't be used without a trace"). Every row that commits through the
  bypass is audited.
* The seeded admins have addresses in `.test`, a reserved domain that `EmailStr`
  refuses with the current `email-validator`, so `LoginRequest` answers 422
  where `seed.py:73` says "Login with any admin above".
* A seed run that was killed halfway is completed by no later run
  (`SeededByOneRun`): the next one adds tenants for all entries again and fails at
  the first address that is there.
* `updated_at` may go back from one step of a ticket to the next: `now` is read
  before the UPDATE (`transitions.py:99`), so a writer that read it early and
  updates late stamps the ticket with an earlier time than the step before.
* A login may combine two flags that never held together, and a widget request may
  mint just after its tenant was suspended (`auth.py:115`, `widget.py:66`): both
  read before they act and hold no lock. `LoginSawGoodStanding` and
  `SuspendedTenantsStopMinting` say what remains true.
* `base.py:47` says the migration and the leak test read
  `TENANT_SCOPED_TABLES`; nobody fills or reads it. The migration has its own list.

## 4. Proofs

Proved with TLAPS, from the named assumptions in the modules (finite bounds are
naturals, special values are not ordinary ones, the names of different kinds of
things differ), for any sets of tickets, writers, requests, tenants,
transactions, connections, catalog entries, signups, logins, addresses, people,
refreshes, ids, texts and tables, any limit and window, and any events of the union, any number
of them. Every safety property that a passing run checks is a theorem, and so are
both refinements of an abstract specification.

`TicketTransitionsProofs`

* `TypeCorrect`: `Spec => []TypeOK`.
* `AuditTrailReplays`: `Spec => []AuditReplays`. The committed trail alone is not
  inductive, since a commit publishes what the transaction wrote earlier. The
  inductive invariant `AuditInv` adds: a row is locked exactly while it has
  uncommitted events, an unlocked row has no second version
  (`LocksGuardWrites`); the uncommitted events lead from the committed to the
  uncommitted state (`PendingReplays`); a call under way passed the whitelist
  (`CallsAllowed`). Commit then appends one path to another, and a win extends
  the pending path by the edge its guard has just compared.
* `OneWinnerPerVisit`: `Spec => []NeverBothWin`, a consequence of a trail without
  gaps: after an event left a state, the trail must come back to it before
  another event can leave it.
* `EscalationKeepsAIOut`: `Spec => []EscalatedStaysWithHumans`. It follows from
  the trail too (`EscalationPath`): of all events after an escalation with no
  human event in between, take the first one of the AI; the trail has not left
  the escalated states before it, and from those the AI has no edge. "The first"
  is the least element of a set of naturals (`LeastOf`), which stands in for an
  induction along the trail.
* `StampsAgreeWithAudit`: `Spec => []StampsMatchAudit`. `StampInv` adds to
  `AuditInv` that both versions of a row are stamped consistently and after their
  latest event (`VersionsStamped`), and that a call read `now` between the start
  of its transaction and the present (`CallsTimed`): the event is dated with the
  start, the row with `now`, and the order of the two is what the property needs.
* `TransitionsImplementLifecycle`: `Spec => Lifecycle!Spec`: a commit maps to a step
  of the abstract lifecycle, everything else to a stutter.

`TenantContextProofs`

* `TenantIsolation`: `Spec => []ReadsOwnTenant`, and `CommittedRowsAccounted`:
  `Spec => []RowsBelongToWriter`, both from `IsolationInv`: no two transactions
  share a connection, the setting of a connection in use is the context of its
  transaction, an idle connection carries no tenant, and what a transaction has
  written or deleted so far is tagged with its context. `TypeCorrect` and
  `PoolStaysClean` (`Spec => []IdleConnsCarryNoTenant`) are conjuncts of the same
  invariant.
* `RowsSurvive`: `Spec => ForeignRowsSurvive`. Under `IsolationInv` a row leaves
  the table in a `Commit` only, and was in `removed` of that transaction.

`WidgetSessionProofs`

* `OnlyLossPartsCounterFromTtl`: `RLSpec => []CountersCarryTtl`. `LimiterInv` adds
  that there is no ttl without a counter. The witness of the property, a caller
  between its two commands, has to survive the steps of all others.
* `LimiterAdmitsTwiceAtMost`: `RLSpec => []AtMostTwiceTheLimit`. That counts hits
  in a window, which no step bounds by itself. `TwoCounters` names them: the young
  hits of a key are of the present counter or of one before it (`Seam`), hits of
  one counter carry different numbers, and by the time the present counter
  expires those of the one before are too old to matter. So admitted hits embed
  into two copies of `1..Limit`.
* `WidgetUsesLimiter`: `WSpec => RLSpec`. The endpoint takes steps of the limiter or
  none, so that what is proved of the limiter holds inside of the endpoint.
* `MintsStayWithinBudget` and `SuspensionStopsMinting`: `RequestInv` ties what a
  request asked for to what was counted for it (`CountedAsAsked`) and where it
  is to the tenant it has seen (`SawActiveTenant`).
* `LimiterTypeCorrect` and `WidgetTypeCorrect`: the types bound a counter by the
  number of callers (`CountsCallers`), so these two have the hypothesis that there
  are finitely many. The others do not need it.

`OnboardingProofs`, all from `AccountInv`

* `TypeCorrect`, `SignupsAreWhole` (`WorkspacesWhole`), `OneSignupWins`
  (`OneAccountPerEmail`), `TokensComeFromConfirmedMail` (`TokensNeedConfirmedMail`),
  `LoginsSawGoodStanding` (`LoginSawGoodStanding`).
* `SignupTrail` fixes what a signup has written at each stage. `IndexUnique` is
  uniqueness for committed and uncommitted rows alike: a rival's row counts from
  its insert on. `MailTrail` leads from a confirmation back to a committed
  signup. `LoginTrail` says what a login knows between its two reads, in which
  administrators may suspend the tenant and disable the account.
* `StaffGateIsSound`: `Spec => []StaffGateHolds`. With the invariant, the two
  catalogs, written out on each side, agree for whatever role a token carries, one
  that neither lists included (`CatalogsAgreeOnEveryRole`).

`FrontendAuthProofs`, all from `SessionInv`

* `TypeCorrect`, `RefreshIsSingleFlight` (`OneRefreshAtATime`),
  `RetriesCarryAnotherToken` (`RetryCarriesAnotherToken`), `TokensFollowTheCookie`
  (`TokenFollowsCookie`), `LogoutsLast` (`LogoutLasts`).
* `TokensDelivered`: a token in memory or in a request comes from an exchange that
  is over, so the token of a refresh under way is new to every request that
  waits for it.
* `Uncrossed` holds until exchanges cross and is what the last two theorems need:
  an exchange that changes the session is alone, a refresh under way was sent
  with the present cookie, from its headers on the cookie is that of the login,
  and a logout drops the token before the cookie.

`ChatStreamProofs`, all from `TurnInv`

* `TypeCorrect`, `RenderedEventsAlwaysParse` (`RenderedEventsParse`) and
  `StreamImplementsChannel` (`Spec => ImplementsChannel`).
* `FramesOnTheWay` is the invariant: buffer, wire and, after a break, what was
  lost are together what follows the frames of the delivered events in the whole
  stream. `start` gives the place of each frame, so that no step needs a
  recursion over the stream (`Placed`, `Remains`; one lemma each for a frame that is
  added and one that is cut off).
* A frame has two newlines in a row only at its end (`FrameMarks`), so the first
  blank line of the buffer ends the frame of the next event, and there is none
  before all of that frame is there (`FirstSeparator`). Its data line is one
  (`FrameData`), and the parser restores every event of the union from what is
  rendered of it (`EventsComeBack`, over the six types).
* A call that resolves has delivered everything (`AllRead`): it reads on only when
  the buffer holds no whole frame (`Reading`), and with the wire empty the frame
  of an event that is missing would be whole.

`SeedProofs`

* `OneRunSeeds`: `SeedSpec => []SeededByOneRun`. Inductive with `SeedInv`: the
  types (`SeedTypeOK`, which is proved here and in no run), and that a run
  that is past its first entry has seeded it. So any other run that has come to
  the first entry has met it as taken.
* `WholeWorkspacesMint`: `SWSpec => []MintsInWholeWorkspaces`. `SWInv` adds that
  entries the run has not come to are bare tenants (`StoreInv`) and that live
  keys, and the keys requests have found, are of whole workspaces (`WholeInv`).
  Seed steps never take a workspace apart (`SeedKeepsWhole`), steps of the
  endpoint find keys among the live ones only (`WidgetMoves`).

`RuleProofs`: constant formulas, so there is no invariant

* `VerificationTakesRespellings` (`VerifiedIffRespelled`), from the five options the
  registry uses (`Registry`) and one comparison per option (`OptionRule`): for any
  texts, any lower case and any table. `DigitsAreCompared` (`DigitsDecide`) follows.
* `KeysAreNoProof` (`KeysProveNothing`): no template has a field that is both a key
  and a proof (`FieldsApart`), so neither check notices when the fields of the other
  are taken out of a record.
* `WarrantyHasTwoKeys` (`OrderFindsItsWarranty`): the alias key of `[C2]`.
* `CredentialsBound`: `CredentialsStayBound(Ids, MasterKeys)`. The separator is
  in no id, so of two equal joined strings neither tenant id can be the longer
  one (`TenantsNotShorter`), and then the parts agree (`AadInjective`).

**Only model-checked.** The liveness properties (`CountersExpire`, `RequestsAnswered`, `SignupsAnswered`, `BootEnds`, `CallsEnd`,
`TurnEnds`): they depend on fairness and `ENABLED`, which are out of the prover's
reach. The three properties of the runs that expect a violation are false.

The invariants of the proofs speak of the program's variables and the history
variables of the modules; none is assumed.

## 5. Plan

Order of further work, most important first.

1. An abstract account (none, unconfirmed, confirmed, closed) that `Onboarding`
   implements, as `TicketLifecycle` does for tickets, and its refinement proved.
2. The budget of the widget (`MintsWithinBudget`) beside a seed that makes keys
   live, as a theorem of `SWSpec`.
3. The safety half of liveness, where it can be proved: that every request that
   waits for a refresh waits for one that is under way, and every signup that waits
   on the unique index for one that has not ended.
4. The hazards without a property in `PROJECT.json` that need a model of their own
   (the boot-time refresh against a login; a request retried after the user
   changed).

Not modelled, with the reason for each: see `components` in `PROJECT.json`. In
short: cryptographic primitives, the egress guard (a pure predicate over
addresses), ports and fakes, schema creation, layout, and modules the repository
only announces (chat engine, relay, ingestion, connectors).
