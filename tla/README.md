# Identity access service: TLA+ models and proofs

This directory models the identity access service (`src/app`): a FastAPI
application that keeps tenants, users, refresh tokens and an audit log in
PostgreSQL and hands out JWT access tokens. The modules are translated from the
code; `PROJECT.json` maps every definition to the lines it stands for.

## 1. The system

| component | code | state | operations |
|---|---|---|---|
| database and sessions | `db/session.py`, `models/`, `alembic/` | tables `tenants`, `users`, `refresh_tokens`, `audit_logs` | one transaction per request |
| threads and connections | `db/session.py`, `main.py`, `dependencies/auth.py` | which request runs, waits or holds a connection | start a hop, connect, time out, commit, close |
| authentication | `services/auth.py`, `core/security.py`, `endpoints/auth.py` | users' lock columns, refresh tokens, the JWTs handed out | register, login, refresh, logout |
| principals | `dependencies/auth.py`, `core/principal.py` | none (a copy per request) | `get_current_principal`, `require_roles`, `resolve_visible_tenant` |
| user management | `services/users.py` | users, refresh tokens | create, change role, deactivate, list |
| tenants | `services/tenants.py` | tenants | create, update, list, get |
| bootstrap command | `services/bootstrap.py`, `management/seed_system_admin.py` | tenants, users, refresh tokens | `ensure_system_admin`, with or without `--reset-password` |
| audit log | `services/audit.py` | audit entries | record; list and page |
| RBAC summaries | `services/rbac.py` | none | counts |
| rate limiter | `core/rate_limit.py` | counters in the process | evaluate, prune |
| the rest | `core/config.py`, `core/errors.py`, `core/logging.py`, `services/health.py`, `schemas/` | none | settings, error envelope, health; validation and normalisation of request bodies |

**How they interact.** The endpoints are synchronous functions, so each request
has a `Session` of its own: one connection, one transaction. Its dependencies and
its handler run one after the other on the threads of a pool, so that even one thread
interleaves requests. Requests meet only in the database and in the limiter's counters
(guarded by a lock). The bootstrap command is another process on the same
database. Services call each other inside one transaction
(`UserManagementService` and `AuditService` ask `TenantService` whether a
principal may reach a tenant; everything records through `record_audit_event`).

**What is hard.** The engine runs at PostgreSQL's default isolation, READ
COMMITTED, and no handler locks a row or checks one again: whatever a handler
read (a token that is not revoked, a user that is active, a counter, a role, a
free slug) may be stale when it commits. Only the unique constraints stand
between two transactions. Add time (locks, access and refresh tokens expire,
windows close), credentials that outlive the rows they were made from,
answers that are lost after a commit, and two resources, threads and connections,
that every request needs at once. Reads have their own trouble: a page of the
audit log is two statements and a summary four or six, each with its own snapshot,
and audit entries bear the time their transaction began, not the one at which
they appear. `PROJECT.json` lists these hazards at
their lines with the properties that watch them.

**What makes each component correct.**
- authentication: a session has one live refresh token, a used or logged-out
  token starts nothing again, wrong passwords are counted and lock the account,
  a locked user gets no new session (it may go on refreshing the one it has), an
  inactive one nothing;
- principals: a request acts only for an active user of an active tenant with
  the role its token names, and only in its tenant;
- user management: only system administrators touch or make system
  administrators; a deactivated user has no session; roles are as audited;
- bootstrap: the only source of a first system administrator;
- database: keys are unique, references resolve;
- threads and connections: no connection is lost, every request is answered;
- audit log: a reader who follows the pages misses nothing and sees only what it
  may; summaries are off by no more than what happens while they are counted;
- limiter: never more than the limit in a window, `Retry-After` exact.

## 2. Modules

| module | models |
|---|---|
| `Store` | the tables, the ORM's flush, transactions of requests, the clock |
| `AuthService` | `services/auth.py` |
| `Principals` | authentication of a request and reach into tenants |
| `UserManagementService` | `services/users.py` |
| `TenantService` | `services/tenants.py` |
| `BootstrapService` | `services/bootstrap.py` |
| `IdentityService` | composition: every request, in any interleaving; the type invariant |
| `IdentityProperties` | what the service promises |
| `IdentityProofs` | type correctness, the kinds of steps, what commits leave alone, unique keys, proved |
| `SessionProofs` | ended sessions, deactivated and locked users, proved |
| `AccessProofs` | audited roles, isolation, provisioning, proved |
| `ApartProofs` | what holds as long as certain requests do not overlap, the ledger of sessions, protected administrators and recorded suspensions, proved |
| `SessionLedger` | the ledger of sessions: the abstract specification the service implements as long as the requests on one user's sessions do not overlap |
| `Summaries` | `services/rbac.py`, beside the requests of `IdentityService` |
| `SummaryProofs` | that a summary adds up but for what is committed meanwhile, proved |
| `AuditQuery` | the listings of `services/audit.py` while entries are committed |
| `AuditQueryProofs` | the completeness of walks through the pages, proved |
| `RequestPool` | the server's threads and the engine's connections |
| `RequestPoolProofs` | where requests are, and that no connection is lost, proved |
| `FixedWindow` | the promise of the rate limiter |
| `RateLimiter` | `core/rate_limit.py`, and the mapping onto the promise |
| `RateLimiterProofs` | the limiter's bound and its refinement, proved |
| `MCIdentity`, `MCSummaries`, `MCRequestPool`, `MCAuditQuery`, `MCRateLimiter` | instances for TLC |

**State.** A table is a function from the primary keys in use to rows; a row has
the columns some decision depends on. An element of `Threads` is a place for one
request under way, not a thread of the server (those are in `RequestPool`). `txn[t]` is
what the request at `t` has read and decided: a record whose `pc` names the statement
it is at. A
handler is a chain of *read* actions, each one SELECT on the tables as they are
at that moment (READ COMMITTED gives every statement its own snapshot), and one
*commit* action, which does the whole flush and commit. `LoginReadTenant`,
`LoginReadUser`, `LoginOkCommit` are the three statements of a successful login.

**What the model knows about the ORM.** A flush writes only the columns whose
value differs from the one loaded, by primary key and with no version check
(`Write`): setting `locked_until` to the `NULL` that was loaded leaves a lock
alone that another request has set meanwhile. The rows of the actor that
authentication loads are released before the handler reads, so the handler's
own SELECTs see the database, not the session's identity map.

**Requests that end without an effect.** Refusals (4xx), an integrity error no
handler catches (a lost uniqueness race is answered 500), a `null` in a tenant
update, a crash, a lost connection: all leave the tables as they were and end
the request, `Rollback`, possible at any statement. Nothing is partial, because
each request is one transaction. A refusal that commits an audit entry is an
action of its own.

**Lost, late and repeated calls.** A client may present any refresh token ever
issued, at any time and as often as it likes, and any access token in `jwts`:
lost answers, retries and replays need no actions of their own.

**Abstractions.** Names, e-mail text, addresses and agents, `last_login_at`,
`last_used_at`, `created_at`, `updated_at` and the wording of answers are left
out. A password hash is the password it verifies; a refresh token's secret goes
with its identifier, since only the holder of the right secret gets past its
check. A nullable column is a set of at most one value; `locked_until`'s NULL is
time 0 and the clock starts at 1. The audit log is a set of entries without
times: an entry recorded twice with the same contents (the same login failing twice) is
there once, so properties ask whether an entry is there and never how often. All hosts
share one clock.

**Spelling.** A request's body strips and lower-cases slugs and e-mails before its
handler runs, so it holds one of `NormalSlugs` and `NormalEmails` (`BodySlugs`,
`BodyEmails`); the bootstrap command has no such validators and keeps what is typed.
An administrator bootstrapped with a capital in either is announced as ready and can
never log in: `bootstrap_spelling` (section 4), the one run with a misspelt value.

**Ghosts.** `family` (in a token's row) names the token of the login a rotated
token goes back to; `strikes` counts wrong passwords answered since the
counter's last reset; the limiter's `spent` counts requests let through since a
window was opened. No guard reads them.

**Summaries.** `report` is the summary a request is putting together: each `CountNext`
is one SELECT on the rows as they are then, in the code's order, while other
requests go on. Its `drift` is a ghost: the number of commits that
changed a user or a tenant since the summary was asked for.

**Audit pages.** `AuditQuery` leaves out what entries say and keeps when they come:
PostgreSQL's `now()` is the start of the transaction, the id is random, and an entry
appears at its commit. A walk is a client that asks for page after page until one
is not full; `began` and `seen` are ghosts, the matching entries when it began and those
it was shown. A client that stops instead when `offset + limit >= total` may miss
entries, since the total is older than the page; and an entry committed during the walk
may appear behind the reader and never be shown to it. Neither is promised.

**Threads and connections.** A synchronous dependency or endpoint is a *hop*: it is
sent to the thread pool, queues there, and gives its thread back when it ends. The
session and its connection stay with the request from the first statement of a
dependency to the commit or the end. `reload` is the `refresh` of a row after the
commit, which takes a connection again. Closing the session runs on a limiter of
its own. The threads, the queue and the pool are libraries, modelled from how the code
uses them; what hops there are and when a session commits and closes is the code's.

**Rate limiter.** `evaluate` is called from a coroutine and holds a lock, so one
evaluation is one step. Time is in ticks, several to a second, because
`Retry-After` is in whole seconds. The pruning age (300 s) and threshold (1024
counters) are constants of the model. A restart of the process drops the
counters, as a new `InMemoryRateLimiter` does.

## 3. What TLC checks

The runs of the service start from a tenant that has its administrator, ann, with a
session and an access token: she has signed up and created bob (`SignedUp`), or the
command has made her a system administrator and she has logged in (`Bootstrapped`). Both
are states that a few requests reach from `Init`. The passing runs start from both
(`PopulatedSpec`, `SummarizedSpec`), the theorems from `Init`.

Every such run uses symmetry over interchangeable identifiers and requests (the
properties are safety properties) and these bounds: `MaxTime` on the clock; `MaxAudit` on
the audit entries (the seeds hold 3), and `MaxProvisioned` instead once the command has
made a system administrator, who can do far more; where there are summaries, `MaxDrift`
on the commits during one. They and, in `sessions_apart` alone, `Apart` (the requests
that may not overlap) are the only state constraints. Identifiers run out and the clock
stops, and a client may simply stop sending, so these runs do not check deadlock; the
runs of the limiter, the pool and the audit pages do.

Passing runs:

| run | bounds | shows |
|---|---|---|
| `administration` | both seeds, 2 tenants, 4 users, 2 requests at a time, 2 tokens, up to 3 further entries (2 after the command) | `TypeOK`; keys unique although every check for a free key is stale at its commit; nobody is a system administrator before the command made one, and nobody below one changes one; tenants stay apart; every role in force and every suspension has the entry that asked for it |
| `sessions_overlap` | both seeds, 1 tenant, 2 users, 2 requests at a time, 3 tokens, 2 passwords, 2 ticks so that locks and tokens expire, up to 3 further entries (1 after the command), both summaries, up to 2 commits during one | a lock keeps out every login that reads it; an ended session stays ended and a deactivated user out, once the requests that had read them before are over; a summary adds up but for what was committed meanwhile |
| `sessions_apart` | the same without summaries, with the command's rotation and updates of roles and tenants, under the constraint `Apart`: `SessionsApart`, `LoginsApart` and `ActorsApart` | one live token per session; logout, deactivation and a new password end sessions; every failure counts; stale access tokens are of no use; the service implements `SessionLedger` |
| `request_pool` | 4 requests, 2 threads, 1 connection | connections are accounted for; every request is answered, although both threads may wait for the connection of a request that waits for a thread |
| `audit_pages` | 1 reader, 2 open transactions, 3 ids, 2 tenants, pages of 1 and 2, 2 times | walks are complete, totals reached, tenants apart, however commits reorder the log and shift the pages |
| `rate_limit` | 2 clients, 3 rules (one off), windows of 4 ticks, pruning from 2 counters at age 5, 8 ticks | the limiter refines `FixedWindow`; limit and `Retry-After` exact |

The bounds let the interesting cases happen: two requests at a time are enough for every
race listed, since each is between two requests; three tokens allow the seed's session two
rotations, or one beside a login; locks and tokens live 1 tick in 2 ticks of clock, so that
they are set or issued, used and expire; two windows and a pruning fit in 8 ticks; a request that holds the only
connection and two that occupy both threads make the circle of waiting, and a fourth
queues behind them; three entries at two times have ties and an order other than that
of their commits, and fill more than one page. A mutant
per property (`PROJECT.json`) confirms that the run would notice a plausible bug.

`TypeOK` of `IdentityService` covers the memory of every request at every statement
(`TxnOK`); it is also the induction hypothesis of the proofs.

Seven properties hold only as long as certain requests do not overlap between their
last read and their commit; `IdentityProperties` states which (`RefreshesApart` to
`ActorsApart`), and the run `sessions_apart` goes no further from the states
in which they do (`Apart`, a state constraint), and leaves out nothing else: any other
two requests overlap there. That is the limit of what the code promises: it never reads
again at the commit, and nothing in it keeps those requests apart. All seven are proved
under these conditions (section 5).

Four others begin when the requests that had read the old state are over (`Ended`, `Out`,
`Barred`, `Shielded`) and then hold whatever overlaps. Before that, such a request may
still start a session of a user that has just been locked or deactivated, or demote a user
that has just been made a system administrator; for the deactivation that is a finding
(`deactivation_race`), for the other two no document says otherwise.

**The ledger.** `SessionLedger` knows open and closed sessions, one good token for an
open one, and users who are out. Its mapping (`Ledger` in `IdentityProperties`) reads a
session's good tokens off the rows that are not revoked. `KeepsLedger` says that
every step of the service opens, rotates or closes sessions the ledger's way: a
rotation takes the one good token and puts a new one in its place, a deactivation
bars the user and closes all its sessions at once, nothing reopens a closed one. The
run starts from populated databases, so it states the steps, not the ledger's
`Init`; the theorem `KeepsTheLedger` has both. Where the requests on one user's sessions overlap the ledger is not
kept: `rotation_race` and `deactivation_race`.

**Fairness.** Only `RequestPool` states any: `WF_vars(Serve(r))` for each request, in
`Spec`. A request that can go on goes on: a thread that is runnable is scheduled, a
statement ends, and a wait in the pool's queue ends by a connection or by the pool's
timeout (30 s by default). The code justifies it: rows are locked by a flush, a
flush happens inside a handler, which runs on its thread until it has committed or
raised, so no lock is held by a request that waits for a thread; and the session is
closed by the exit of a generator that runs on a limiter of its own
(`get_db_session`). Clients need not send anything: `Arrive` is not fair. No other
liveness is claimed: nothing in the service runs by itself (no job unlocks accounts or
deletes expired tokens), so what happens next is up to the clients.

## 4. Where the code and its documents disagree

| run | the document | what TLC finds |
|---|---|---|
| `rotation_race` | "Refresh flow invalidates old token on rotation" | two refreshes with one token both succeed |
| `deactivation_race` | "Role changes and deletions must avoid orphaned sessions and stale refresh tokens." | a login under way leaves a live token |
| `lockout_race` | "Repeated failed login attempts ... trigger a temporary account lockout." | two failures count as one |
| `unaudited_revocation` | "Must record at minimum: ... Refresh token revocation" | a deactivation revokes tokens and records none of them; the bootstrap command's rotation does so too, without any entry |
| `bootstrap_spelling` | "Create or recover the initial system administrator", "System admin ready" | an administrator created with a capital in its e-mail, which no login can spell |
| `rate_limit_long_window` | requests over the limit are answered 429 | with `RATE_LIMIT_WINDOW_SECONDS` over 300 pruning opens a second allowance |

## 5. What is proved

TLAPS checks every theorem for any number of tenants, users, tokens, clients and
threads, any set of endpoints in use and any limits. The assumptions are those the
modules name: `LimitsAssumption`, `EndpointsAssumption` and `SpellingAssumption` (`Store`),
`LimiterAssumption` (`RateLimiter`); TLC evaluates them in every run.

| theorem | states | rests on |
|---|---|---|
| `Typing` | `Spec => []TypeOK` | itself |
| `UniqueKeys` | `Spec => []KeysAreUnique` | `TypeOK`, `SlugsUnique`, `EmailsUnique` |
| `EndedForGood` | `Spec => EndedSessionsStayEnded` | `TypeOK` |
| `OutForGood` | `Spec => DeactivatedStayOut` | `TypeOK` |
| `LockHolds` | `Spec => LockedStayOut` | `TypeOK` |
| `RolesExplained` | `Spec => []RolesAreAudited` | `TypeOK`, `RolesGiven` |
| `Isolation` | `Spec => TenantsAreIsolated` | `TypeOK`, `MemoryInScope` |
| `Provisioning` | `Spec => []SysAdminsAreProvisioned` | `TypeOK`, `ProvisionedByOperator \/ NoSysAdmin` |
| `SingleToken` | `Spec /\ []RefreshesApart => []OneLiveTokenPerSession` | `TypeOK`, `RefreshInv` |
| `LogoutEnds` | `Spec /\ []RefreshesApart /\ []LogoutsApart => []LogoutEndsSession` | the same, `LogoutInv` |
| `DeactivationEnds` | `Spec /\ []DeactivationsApart => []DeactivatedHaveNoSession` | `TypeOK`, `DeactivationInv` |
| `FailuresCount` | `Spec /\ []LoginsApart => []EveryFailureCounts` | `TypeOK`, `StrikesInv` |
| `RotationEnds` | `Spec /\ []RotationsApart => RotationEndsSessions` | `TypeOK`, `RotationInv` |
| `ActorsStayEntitled` | `Spec /\ []ActorsApart => ActorsAreEntitled` | `TypeOK`, `ActorsEntitled` |
| `SuspensionsRecorded` | `Spec => []SuspensionsAreRecorded` | `TypeOK`, `Shapes` |
| `SysAdminsProtected` | `Spec => SysAdminsAreProtected` | `TypeOK` |
| `KeepsTheLedger` | `Spec /\ []SessionsApart => Ledger!Init /\ KeepsLedger` | `SessionInv`, the sessions' invariants together |
| `SummariesHold` | `SummarySpec => []SummariesAddUp` | `TypeOK`, `SummaryInv` |
| `PlacesAndBounds` | `Spec => []TypeOK` (threads and connections) | itself |
| `NoConnectionIsLost` | `Spec => []ConnectionsAreAccountedFor` | `TypeOK` |
| `LogTyping` | `Spec => []TypeOK` (audit pages) | itself, `WalksOK` |
| `NoEntryIsSkipped` | `Spec => []WalksAreComplete` | `TypeOK`, `WalksOK`: where a walk has come |
| `TotalsHold` | `Spec => []TotalsAreReached` | the same |
| `ReadsAreIsolated` | `Spec => []ReadersStayInTheirTenant` | the same |
| `Counting` | `Spec => []CountersOK` | `Shape` |
| `Rounding` | `Spec => []RetryAfterIsTight` | `Shape` |
| `Bounding` | `Spec => []WithinLimit` | `Shape`, `InStep`, `PrunesOnlyExpired` |
| `Refinement` | `Spec => KeepsPromise` | the same |

**Types.** `TypeOK` is inductive as it stands because it also covers the requests'
memory (`TxnOK`): a commit writes what an earlier statement read, so the rows a
request remembers must still resolve when it commits. `Grows` (rows are never
deleted, nor moved to another tenant or user) is why other requests' commits
cannot spoil that memory.

**Steps.** `StepKinds` splits a step of a request into a commit or a read, and a
read changes nothing but the request's memory (`HoldKeeps`); so an invariant about
tables needs an argument for thirteen commits, and one about memory
one for the reads.

**What has ended.** Three facts carry `SessionProofs`: tokens only age
(`TokensAge`), tokens come only from a sign-up, a login or a refresh that has
passed its checks (`Issues`), and a request passes those only for a live token
and an active user, a login only for an unlocked one (`Checked`). The states "no
live token and no refresh of one under way", "inactive and no login or refresh
under way" and "locked and no login under way" are therefore closed. Without the
part about requests under way they are not: in `deactivation_race` a login that had
read the user active leaves it a live token.

**Who may do what.** A check made before the commit is stale at the commit, so
isolation cannot rest on it; it rests on what no other request can change.
`MemoryInScope` says that a principal's request remembers a target in the
principal's own tenant, and the tokens of that target; tenants of users and users
of tokens never change. `NoSysAdmin` has to follow the role through rows, access
tokens and the memory of logins, refreshes, creations and changes of role,
because each of them may carry it into the next. `SysAdminsProtected` is closed in the
same way as what has ended: a check that finds a system administrator lets no lesser
principal in (`ShieldStays`), so once those that had found something else are over, none
is left. `SuspensionsRecorded` goes by who can take a tenant out of service: every other
commit leaves in service what was (`OthersHoldTenants`), and an update that does not names
the flag in its entry (`UpdatesAsk`), even when its flush writes nothing.

**As long as they do not overlap.** For each of the seven promises `ApartProofs` names the
overlaps that can break it, and proves that no others can, with any number of requests
under way. The
conditions are not assumptions on the constants but on the behaviour, `[]Cond`: nothing in
the code enforces them, so a deployment that wants the promise has to (a row lock or
a conditional `UPDATE`; fewer threads are not enough, since one of them serves several
requests hop by hop). None is without need: without it TLC finds a behaviour that breaks
the promise (`rotation_race`, `deactivation_race` and `lockout_race` keep three of them).

| promise | may not overlap | what the commit then relies on |
|---|---|---|
| `OneLiveTokenPerSession` | two refreshes of one token | the token presented is still the only unrevoked one of its session (`OneUnrevoked`, `Alone`) |
| `LogoutEndsSession` | the same, nor a logout and a refresh of one token | the session the token was read in has no other; no refresh of a logged-out session is under way (`LoggedOut`, `Over`) |
| `DeactivatedHaveNoSession` | a deactivation and a login or refresh of its user | the tokens selected are all the user's (`OwnersActive`); whoever is let in is still active |
| `RotationEndsSessions` | a rotation and a login or refresh of its user | the tokens selected are all the user's |
| `EveryFailureCounts` | two logins of one user, or one and the command's reset of its lock | the counter and the lock loaded are those of the row (`LockKnown`) |
| `ActorsAreEntitled` | a principal's request and one that takes its role, account or tenant away | the principal's rows are still those authentication read |
| `KeepsLedger` | the first four | all of it at once (`SessionInv`) |

Each invariant says what the rows held in memory still have to do with the tables, and a
condition is used at one place: where another request's commit changes what this one
remembers. Everything else is shared. `MemoryAfter` says what a statement has found
(`Finds`) for all handlers at once. `TokensMove` reduces the thirteen commits to three ways
in which tokens change (`Opened`, `Rotated`, `Closed`); `WhoRevokes` and `UnrevokedStay`
say which requests revoke a token and when the selection of a user's unrevoked tokens
stays complete. `LocksMove` and `RolesMove` do the same for the lock columns and the roles. Each way in which tokens move is a step of `SessionLedger`; the commits
that only touch users bar or readmit one or leave the ledger alone.

**Summaries.** A commit changes at most one user and one tenant (`OneMoves`), so
every number a summary reads moves by at most one with it, and `drift` by exactly one if
any does. `AddsUpSoFar` compares the numbers counted so far, with the rows
not yet counted standing for themselves: it holds exactly when counting begins, a count
changes nothing (the number is the rows'), and a commit moves either side by at most one, or both together where
a user changes role. That needs the tables finite, which no assumption says:
they begin empty and grow by a row at a time (`FiniteTables`).

**Rate limiter.** `InStep` relates the counters to the requests really let through
while a window is open. It is inductive only under
`PrunesOnlyExpired == PruneAge >= Window`, which the settings do not enforce: the
run `rate_limit_long_window` shows what happens without it. `Refinement` maps the
counters of open windows onto the windows of `FixedWindow`; closed ones, kept or
pruned, do not matter.

**Audit pages.** The argument of `NoEntryIsSkipped` is one of ranks: an entry's rank in
the listing never falls, because the log only grows and `Before` is a strict total
order (the id breaks ties: without it the mutant `BeforeByTime` skips entries). So what
a walk has passed stays behind it or shifts towards it, and every entry that was there
at the beginning and has not been shown is still ahead of the offset; a page that is not
full ends the list.

**Threads and connections.** `PlacesAndBounds` needs that a request is in the queue
once and never there and on a thread at once, which the shape of the queue carries
through `Append` and `Tail`; the rest is counting.

**Only model-checked:** the disagreements of section 4, and that the conditions of
`ApartProofs` are needed (a counterexample is TLC's to find). **Out of the
prover's reach:** liveness under fairness (`EveryRequestIsAnswered`), `ENABLED`,
and inductions over data.

## 6. Plan

Done: the core (`Store` to `IdentityService`), the limiter, the ledger of sessions, the
summaries, the audit pages, threads and connections, their properties, and a theorem
for every safety property that a passing run checks. Left is what the prover cannot
state: `EveryRequestIsAnswered` stays with TLC.

**Not modelled:** the error envelope, logging, the response bodies, listings other than
the audit log's (one SELECT each), the schemas' validation other than of the spelling of
slugs and e-mails (a body that fails it is refused before the handler runs), reading the
settings, the schema migrations beyond what they create. They keep no state of their own.
