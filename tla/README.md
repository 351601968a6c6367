# EnterpriseGuard WAF in TLA+

EnterpriseGuard WAF is a web application firewall: a FastAPI backend
(`src/main.py`, `src/app`) with PostgreSQL and an optional Redis, and a Next.js
dashboard (`src/frontend`). This directory holds TLA+ specifications of the
parts of it that run concurrently and keep state, the TLC configurations that
check them on small instances, and proofs, checked by TLAPS, that the main
safety properties hold for every instance.

Paths without a prefix are relative to `src/`; `runtime_sync.py` and the like
are under `src/app`.

## 1. The system

### 1.1 Parts, state, operations

| Part | State it keeps | Operations | Model |
|---|---|---|---|
| Runtime sync (`services/runtime_sync.py`, `waf/runtime.py`, start-up in `main.py`) | block list, allow list, mode, built-in and custom rules in the memory of the process | `sync_once`, `_purge_expired`, the loop, `start` | `RuntimeSync`, `CopyPromise` |
| Default organization (`services/tenant_service.py`) | cached id | `get_default_org_id` | `RuntimeSync` |
| IP lists, rules, settings (`api/routes/waf.py`, `rules.py`, `settings.py` and their repositories) | tables `blocked_ips`, `allowed_ips`, `rules`, `waf_settings`, per organization | add, remove, create, update, rename, toggle, delete, `update_mode`, `update_settings` | `RuntimeSync` |
| Redis and its wrapper (`core/redis_client.py`) | keys with TTLs; `_reported_down` | `get`, `setex`, `incr`, `expire`, outage report | `SafeRedis` |
| Request pipeline (`middleware/waf_middleware.py`) | local variables of each request | `dispatch` | `Pipeline` |
| Rate limits (`services/rate_limit_service.py`), autoban (`services/autoban_service.py`) | counters in Redis | `check*`, `record_block` | `Pipeline` |
| Sessions (`auth/*`, `services/auth_service.py`, `api/routes/auth.py`) | signed tokens held by clients; `token_blacklist:` keys | login, refresh, logout, `get_current_user` | `Sessions` |
| Two-factor authentication (`services/auth_service.py`, `frontend/.../profile/page.tsx`) | `totp_secret`, `totp_enabled` of the user row; the card of the profile page | setup, enable, disable | `SecondFactor` |
| Browser session (`frontend/src/services/api.ts`, `store/auth-store.ts`, login, register and dashboard layout) | cookies and local storage of the browser; store and calls of each tab | both interceptors, `initialize`, login, verify, register, `logout`, routing, the poll of the sidebar | `BrowserSession` |
| Traffic stream (`services/traffic_stream.py`, `api/routes/traffic_ws.py`) and its pages (`hooks/useWebSocket.ts`, `/dashboard/live`, `/dashboard/attack-map`) | one bounded queue per socket; sockets, timers and retries of the hook; the list of events | `broadcast`, the handler of a socket, connect, reconnect, unmount | `LiveFeed`, `FeedPromise` |
| Lists of the console (rules, alerts, users, block and allow list, logs, audit, reports, dossiers, charts) | the query cache, page and filter, form, writes in flight; the table behind them | fetch, poll, filter, page, create, update, toggle, remove, invalidate | `AdminLists` |
| Playgrounds (`dashboard/playground`, `playground`) | inputs, verdict, runs in flight, shared link | edit, run, share, open a link | `Playgrounds` |
| Settings page and `PUT /settings` | the rows; the query, the form, the save it waits for, handlers at work | fetch, type, save key by key | `SettingsPage` |
| Brute-force guard | `bf:` counters | `is_locked`, `register_*` | not modelled: counters like those of the limits |
| Engine (`waf/engine.py`, `waf/actions.py`, `waf/detector.py`, `waf/rules/*`) | anomaly baselines in Redis | `inspect`, scoring, severity | verdict only, in `Pipeline`; the event of an inspection in `LiveFeed` |
| Alerts, audit log, request log, webhooks | rows | append, deliver | their failures, where they change control; their listings in `AdminLists` |
| Organizations, dashboards, reports, health, metrics, schemas, migrations, rendering | none that another part reads | queries, rendering | not modelled |

`PROJECT.json` lists every part with its files and says what of it is left out.

### 1.2 How they interact

- An admin handler commits a row, writes an audit row in a database session of
  its own, and awaits `sync_once()`, the same coroutine that the start-up event
  and the periodic loop run. No lock is held: passes overlap. The engine and
  the middleware read the copies in memory without an await.
- A request goes through playground limit, allow list, block list, address
  limit, route limit, CSRF, engine and the application, in this order
  (`README.md:42` draws CSRF after the engine; the code runs it before). Every
  limit is INCR, then EXPIRE by the request that read 1, through the wrapper;
  a refusal is logged and then counted for autoban.
- Tokens are checked against `token_blacklist:` in Redis by every endpoint that
  depends on `get_current_user`, and by `refresh`; `logout` and `refresh`
  write it.
- Everything runs on one asyncio event loop: between two awaits a task runs
  alone; at an await any other task may run. The steps of the models are the
  stretches between awaits that touch shared state.

### 1.3 What is hard, and what correctness means

- **Runtime sync**: passes that read old rows and publish late; statements
  that fail in the middle; a purge that deletes what it selected earlier;
  organizations that share tables. Correct: nothing is enforced that the
  default organization did not store; a block in force has no gap; the purge
  removes only what has expired; memory converges to the tables.
- **Limits over Redis**: two commands that are not atomic; replies lost;
  outages that keep or lose the keys; a process that dies in between. Correct:
  one life of a counter admits at most the limit, loses no unit, is given a TTL
  exactly once, and ends.
- **Sessions**: check-then-write on the black list; a logout of two writes, which
  is admitted by one token and revokes others; TTLs and lives of tokens that end independently; tokens that are equal when
  issued in one second. Correct: a session whose cookies
  were logged out stays out for as long as that is remembered; a refresh token is not exchanged without bound.
- **Two-factor**: a row read by `get_current_user` and written after other
  requests. Correct: an enabled secret was confirmed by a code, or the handler
  that enabled it wrote by a row that was no longer so.
- **Browser session**: tabs that share cookies; calls that meet a 401 together
  and refresh together; calls sent twice; answers after a logout or a
  navigation. Correct: nothing is done twice; a refresh token that was
  exchanged is followed by its successor; a session that is over is noticed.
- **Live traffic**: a bounded queue that overflows; sockets and timers that
  outlive the mount that made them. Correct: one connection per page, events in
  order and without repetition, no queue left behind.
- **Console**: answers older than the write or the view they are shown under;
  fetches that fail; forms edited while they are saved; handlers that go on after
  their connection was lost. Correct: what is shown belongs to what was
  asked, an empty list was answered as empty, a removed row does not return, a save
  stores what was clicked.

`PROJECT.json` lists every hazard with the line where it bites and the
properties that cover it, or why none does yet.

## 2. The modules

```
SafeRedis  <--EXTENDS--  Pipeline  <--EXTENDS--  PipelineProofs, MCPipeline
    ^                       |
    |                       +--INSTANCE--> WindowLimiter (abstract specification)
    +------- EXTENDS ---- Sessions  <--EXTENDS--  SessionsProofs, MCSessions
RuntimeSync  <--EXTENDS--  RuntimeSyncProofs, MCRuntimeSync
    +--INSTANCE (4 times)--> CopyPromise (abstract specification)
MCPipeline  <--EXTENDS--  MCPipeRaceWays (two scenarios of one run)
BrowserSession  <--EXTENDS--  BrowserSessionProofs, MCBrowser
LiveFeed  <--EXTENDS--  LiveFeedProofs, MCFeed
    +--INSTANCE--> FeedPromise (abstract specification)
AdminLists, Playgrounds, SecondFactor, SettingsPage  <--EXTENDS--  MCConsole
AdminLists  <--EXTENDS--  AdminListsProofs
SecondFactor  <--EXTENDS--  SecondFactorProofs
Playgrounds, SettingsPage  <--EXTENDS--  PagesProofs
```

In every module the definitions whose comment begins with *Mutant* (or that
stand beside the definition they vary) are wrong variants of the code. No
specification uses them; `PROJECT.json` names, for each property, the variant
that violates it.

### 2.1 RuntimeSync, CopyPromise

State: the four tables by organization, the five copies in memory, the cached
organization, the phase of the start-up event, and for each task (each admin
request in flight, and the start-up task, which later is the loop) the
statement it is at with the local variables of `sync_once`.

`Resolve`, `ReadBlocked`, `ReadAllowed`, `ReadMode`, `PublishMode`,
`ReadBuiltin`, `Seed`/`SeedConflict`, `Reread`, `PublishBuiltin`, `ReadCustom`,
`PublishCustom`, `Apply`, `SelectExpired` and `DeleteExpired` are the statements
and publications of one pass, in the order of the code. `StatementFails` is the
`except` of the try block, which goes on to publish what was read so far;
`PurgeFails` is the exception nothing catches inside the pass. The handlers
(`AddBlocked`, ..., `UpdateSettings`, `UpdateMode`) are one commit, then
`Audit`, then a pass; `UpdateMode` publishes itself and runs no pass.
`Restart` kills the process anywhere.

Details taken from the code that matter: the second read of the built-in rows
returns the objects of the first, because the session does not expire them;
seeding violates the unique constraint when another row holds the name; a
temporary block without a duration has no expiry and is neither enforced nor
purged; `UpdateSettings` stores any value and neither publishes nor syncs.

Abstracted: addresses and names are model values; a rule is its kind, whether it
is on and whether its pattern compiles; refused requests (404, 409, 400) change
nothing and are left out; a commit is one step with the reads before it.

`CopyPromise` is what the engine is promised of each thing it enforces from
memory. A table changes as it likes (`Change`); the copy becomes what the table
was as a whole at one moment since the process began (`Take`), possibly an
older moment than the last; it becomes what the process begins with by a restart
(`Reboot`) or, for the lists, once a statement has failed (`Lose`).
`RuntimeSync` states that the block list, the allow list, the mode and the
custom rules each keep the promise, with the history of each table (`seen`,
`allowsSeen`, `modesSeen`, `customsSeen`) as `past`; no guard reads a history.
The mode and the custom rules are never lost: a failing statement leaves them as
they are. The states of the built-in rules are no such copy: `Reread`
puts them together from two reads.

### 2.2 SafeRedis, Pipeline, WindowLimiter

`SafeRedis` is the server (a value and a TTL per key, reachable or not) and the
wrapper. A call is two steps of its caller: the server executes the command, or
is not reached, or executes it and the reply is lost; later the caller resumes.
Everything else may happen in between.

`Pipeline` follows each request through `dispatch`: `Arrive` is the stretch up to
the first await with its four branches; `SendIncr`, `ResumeIncr`, `SendExpire`,
`ResumeExpire` are the calls of one counter; `Decide` takes the request to the
next counter, to `Inspect` or out; `Refuse` logs and calls `record_block`, or
only fails to log. `Clock`, `RedisFails`, `RedisReturns`, `SyncLists` (a pass of
the runtime sync publishes other lists) and `Crash` are the surroundings.
The engine's and the CSRF validator's verdicts are nondeterministic.
`record_block` ends after its first two EXPIREs, as in the code, where it calls
`redis_client.sadd`, which does not exist.

`WindowLimiter` is what a limit promises: a budget per key, one unit per
admission, and a window per key that is opened, starts to run once, runs down tick
by tick, and gives the whole budget back when it is over. Nothing else gives a unit
back and nothing starts a running window again, except a store that lost its keys.
`Pipeline` is shown to implement it under `used <- admitted`,
`lost <- emptied` (Redis has lost its keys before) and `rest <-` the TTL of the
counter, or one more than its period while the counter has none yet: INCR opens a
window, EXPIRE starts it, the clock runs it down. It says more than `AtMostLimit`:
an EXPIRE with another time than the period, a second EXPIRE, or a counter that ends
early are steps `WindowLimiter` does not have.

History variables: `admitted` (admissions since the counter exists),
`reasons` (reasons an address was refused for since its autoban counter
exists), `fresh` (the counter a request read still exists). They are read by no
guard.

### 2.3 Sessions

A token is `<<kind, user, second of issue>>`, which is what the signed text
depends on (the role of a user is taken as constant); an access and a refresh
token of one second form a session. A request arrives
with a token that was issued and has not expired, or logs in; it asks
`token_blacklist:`, is refused or admitted, writes what it revokes, and issues.
It carries two things: the token that admits it (`session`) and its cookies
(`cookies`), which are another session's, or none, when the token came in the
`Authorization` header, which `get_current_user` looks at first. What `logout`
revokes are the cookies; what it was admitted by lives on. `refresh` knows the
cookies only.
The test of `is_active` is a nondeterministic refusal, because an administrator
may change it at any time. `ended` (until when the logout of a session has to be
remembered: `RevokedLife` after its admission) and `rotations` are history; `until`
is what `ended` was when a request began. `lost` marks a request some call of which got no answer, or during which Redis lost its
keys: for those the code fails open, and the properties say so.

The life of a refresh token is a setting (`REFRESH_TOKEN_EXPIRE_DAYS`), that of a
revocation is 7 days in the code; the model ties neither to the other, and the
properties speak of the life of the revocation.

Left out: passwords and codes (a login that fails changes nothing here),
registration, profile, password change (which revokes nothing), and the
WebSocket, which decodes its token and never asks the black list.

### 2.4 BrowserSession

One browser: its cookies (`jar`), reduced to whether the server takes the access
token and what became of the refresh token; local storage (is there a user, is
there a CSRF token); per tab the page, the store and the mfa token of the login
page; and the calls in flight, each with the stage of the interceptors it is in.

`Submit`, `Act`, `Poll`, `Route`, `GoBack`, `Open` start calls or load
documents; `Serve` is what the server answers, by the cookies as they are when
it looks (a refresh looks and revokes in two steps, as in `Sessions`); `Receive`
is the response interceptor and what the caller does with the answer: refresh
after a 401, repeat the call, sign out and go to `/login`, or hand the answer on
to `initialize` (`Known`), `logout` (`LoggedOut`), the forms (`Welcome`,
`AskCode`) or a page (`Finish`). `Lose` loses an answer or a call, `Expire` ages
the access token, ends the session elsewhere, or both.

Leaving a document drops its calls, but what they do on the server and to the
cookies still happens (`Kept`, `Without`). `applied` counts how often the server
has run the handler of a call.

### 2.5 LiveFeed, FeedPromise

Per WebSocket, both ends: `readyState` at the browser, the handler at the
server, its queue, and the messages between them. `Broadcast` puts an event into
every registered queue and takes the oldest out of a full one; `Answer`,
`Register`, `Forward`, `Hangup` are `ws_traffic`. `Mount`, `Unmount`, `Opened`,
`Closed`, `Reconnect` and `Message` are the hook with its refs and the two pages.
`Drop` breaks a connection, `Restart` the process. A handshake refused with 4401
is closed before it was accepted; the browser sees 1006, so the page retries.
The refs of a page go with it: the model takes an unmounted page's sockets and
timers for nobody's, as in a production build (the remounts of React's strict
mode in development are left out). An event's id is unique, or the address of
its request object, which may come again.

`FeedPromise` is what a listener is promised: events in order, and one is
skipped only when `QueueSize` newer ones were waiting behind it.

### 2.6 AdminLists

One page of the console at a time, chosen by `list`; `Pages` has a record for each
that says what it offers: dialogs, buttons, a filter, pages, an interval, what it
shows meanwhile, and when it says that there is nothing. `Serve` and `Arrive` are a
query of the cache, one entry per key, in two steps so that its answer may be old
when it arrives; a fetch may also fail for good. `LookAt` shows a view, from the
cache while it is fetched again; `TurnPage`, `Filter`, `Dialog`, `Press`, `Submit`
are the user (the dialog that edits a rule is for the row it was opened for);
`ServeWrite` and `Finish` a write and its `onSuccess`, which invalidates the list:
every entry is stale, and the one on view is fetched anew, a fetch under way being
dropped. `LeftAlone` is what the invalidation does not reach: the fetch of a view
that was left, and the first one of a view, go on, and their answers, read perhaps
before the write, come in as fresh. `Poll` are the intervals; `Others` other admins
and the engine. Rows are ordered by id; a row is on when a rule is enabled or an
alert unresolved. The query cache itself is a library and is modelled by how the
pages use it (external).

`gone` is history: for each key the rows whose removal was confirmed at a moment
when the invalidation reached that key. It lasts: leaving a view and coming back
to it forgets nothing.

### 2.7 Playgrounds, SecondFactor, SettingsPage

`Playgrounds`: the inputs, the verdict and the runs in flight of both pages. The
dashboard disables its button while a run is out; the public page is also run by
Enter, samples and links. `Parsed` is what `parseShareUrl` makes of a link.

`SecondFactor`: each of the three handlers is a `Read` (`get_current_user`) and a
commit of the attributes it changed; the card of the profile page calls them, with
the code of any secret it has shown or a wrong one. Handlers of one user run at once,
whatever they do: nothing in the code keeps them apart. `stale` is history: has
a setup or an enable committed by a row that had changed since it was read?

`SettingsPage`: the query, the form it fills whenever data arrives that differ, the
edits, and the save the card waits for (`save`), apart from the handlers on the
server that write key after key (`handler`). A commit that fails ends its handler
(`FailKey`); a connection that is lost ends the wait only (`LoseSave`), so the
handler of that save writes on beside the next one, and beside another
administrator. `over` is history: the keys somebody else wrote after the save on
view did, or before it came to them.

## 3. What the runs check

| Run | Properties | Instance |
|---|---|---|
| `sync_safety` | `TypeOK`, `SteadyBlockEnforced`, `HoldsCopies`, `PurgeRemovesOnlyExpired` | 2 organizations, 1 address, a handler and the start-up/loop task, 2 commits, 1 tick, 1 failure, 1 restart |
| `sync_live` | `ListsConverge`, `ModeConverges`, `RulesConverge` | all ten operations, 1 organization, 1 address, 2 rule names (1 built-in), 2 commits, 1 failure |
| `pipe_safety` | `TypeOK`, `AtMostLimit`, `NoUnitLost`, `OneOwesTtl`, `WindowNotProlonged`, `ImplementsLimiter` | two scenarios: 3 requests of one address race through limits of 2 and 1, periods of 2 ticks, 1 outage or lost reply; one request at a time takes every way through `dispatch` (playground, lists, login, exempt path, no address, refusals) |
| `pipe_live` | `CountersForgotten`, `OutageReportEnds` | 2 requests of one address on an exempt path (one limit of 1), period of 1 tick, 1 fault, 1 restart of the process |
| `claim_kill_chain` | `KillChainBanned` (violated) | 1 request |
| `sessions` | `TypeOK`, `LoggedOutRefused`, `RotationsBounded` | 1 user, 2 requests with the token and the cookies of any session, tokens of 2 seconds, lives of 0 (access) and 1 second (refresh, revocation), 1 fault (outage, lost reply or crash) |
| `browser` | `SessionTypeOK`, `AppliedOnce`, `SuccessorComes` | 2 tabs, 2 calls in flight, 1 lost message or page opened by hand |
| `browser_live` | `SpinnerEnds`, `DeadSessionNoticed` | 1 tab, 2 calls, 1 lost message or reload |
| `claim_restore` | `ValidSessionRestored` (violated) | 1 tab, 2 calls |
| `feed` | `FeedTypeOK`, `OneConnection`, `NewestFirst`, `KeepsPromise`, `Reconnects`, `DeadQueueRemoved` | 2 sockets, queues of 2, 2 retries, lists of 2 and 1, 4 events, 1 visit, 1 dropped connection or restart |
| `console` | `ListTypeOK`, `AnswerMatchesView`, `RemovedIsGone`, `NothingIsAnAnswer`, `BadgeSettles`, `PlayTypeOK`, `ResultOfLastRun`, `FactorTypeOK`, `ConfirmedUnlessStale`, `SettingsTypeOK`, `SavedAsClicked` | one page at a time: rules, alerts, audit log, reports, traffic chart and recent alerts with 2 rows, pages of 1, 2 writes, 3 acts; 2 texts and 2 runs; 4 calls of the two-factor card, 3 in flight; 2 handlers of saves, 2 keys of 2 values |
| `claim_2fa` | `EnabledAfterConfirmation` (violated) | 5 calls of the two-factor card, 3 in flight |

**Bounds.** `MaxTime`, `MaxWrites`, `MaxFaults`, `MaxRestarts`, `MaxCrashes`,
`MaxCount`, `LastIssue`, `MaxUpsets`, `MaxEvents`, `MaxVisits`, `WireSize`,
`MaxActs`, `MaxPlays`, `MaxCalls`, `MaxLost` and `MaxEdits` are the bounds of the
models, and the sets of requests, calls, writes and runs; each is a guard or a
ceiling named in its module. They are enough for the interesting cases:

- Two tasks suffice for one stale pass to overlap a newer one, and two commits
  to change what the stale pass read; two organizations to confuse rows; one
  tick to end a temporary block between the select and the delete of a purge;
  one failure at each statement in turn. The seeding conflict needs a built-in
  name and another name.
- Three requests at a limit of 2 are the first to be refused; a limit of 1
  after it makes requests leave one counter for the next; two ticks of TTL let
  time pass between INCR, EXPIRE and expiry; `MaxCount` lies one above the
  largest limit, so a counter that stays at it is refused as a larger
  one would be. One fault covers each single outage, with or without loss of the
  keys, and each single lost reply.
- Two requests are the first to race for one refresh token, and a logout with
  a refresh; two sessions of one user are the first of which one can be in the header
  and the other in the cookies; the life of a revocation, one second, ends within the
  two seconds of the run.
- Two tabs and two calls are the first to meet a 401 together, to race a
  logout with an answer of `initialize`, and to leave a document while another
  tab works on. The liveness of a tab needs one tab and two calls: its
  `initialize` is called twice.
- Two sockets are one that closes and one that replaces it; queues of two are
  the first in which the oldest is not the only event; four events overflow them;
  two retries tell the first from the last; one dropped connection or restart
  leaves a queue behind, and one visit ends in an unmount at any point.
- The six lists opened offer between them everything a page offers (form,
  removal, search, switch, resolve, badge, kept page, placeholder, intervals, each
  kind of empty state);
  two rows on pages of one give two pages and an emptied last one; two writes
  overlap; three acts let a view change while a write and another admin's
  change are in flight. Three calls of the card let a setup, an enable and another
  setup overlap. Two keys let a save stop in the middle, two handlers let an
  abandoned one write beside it.

The proofs of section 5 carry the safety properties they name to every value of
these constants.

`CHECK_DEADLOCK FALSE` is set for `RuntimeSync`: when the start-up pass failed
the loop is never started, and with the commits and ticks of the bound spent
the process then really has nothing left to do. It is set for `feed`,
`console` and `browser_live` because a page whose user does nothing more, with
the bounds spent and every answer arrived, may rest. Symmetry (requests, tabs
and calls are interchangeable) is used in the safety runs `pipe_safety`,
`sessions` and `browser` only.

**Fairness.** `RuntimeSync!FairSpec`: weak fairness of the loop task, of each
handler and of the clock. `Pipeline!FairSpec`: weak fairness of each request's
own steps, of the clock and of the return of Redis. The event loop runs every
ready task, an awaited statement or call returns or raises, the sleep of the
loop ends. No request, commit, failure or crash is ever forced, and no
failure is ruled out except by its bound. `Sessions` states no liveness.
`BrowserSession!SessionSpec`: weak fairness of `Serve` and `Receive` (a call is
answered or fails, and its promise is settled), strong fairness of `Route` and
`Poll`: an effect runs after its render and an interval fires as long as its
page is there, though a page that comes and goes, or a call slot of the bound
that is taken now and then, disables them for moments.
`LiveFeed!FeedSpec`: weak fairness of the server's tasks, of the browser's events
and of the timer of a reconnect. `AdminLists!ListFairness`: weak fairness of the
answers, of the writes under way and of the intervals. No user is ever made to
act.

### The properties in words

- `HoldsCopies`: the block list, the allow list, the mode and the custom rules
  in memory are each, as a whole, what the default organization's table held at
  one moment since the process began, or what the process began with: passes
  mix no two states of a table and no rows of another organization, and only a
  restart or a failing statement empties a list. (The table of rules is empty in
  this instance, to keep it small; in the instance of `sync_live`, which has
  the rules, the property holds as well, and the theorem is about any tables.)
- `SteadyBlockEnforced`: while no statement has failed, an address blocked ever
  since the process started is enforced in every state that serves traffic,
  however passes overlap.
- `PurgeRemovesOnlyExpired`: a step that is not an admin's commit removes only
  rows that have expired, even when the address was unblocked and blocked again
  between select and delete.
- `ListsConverge`, `ModeConverges`, `RulesConverge`: when commits, failures and
  time stop and the loop runs, memory becomes what the tables say and stays so;
  the rules as long as no custom rule took a built-in name.
- `AtMostLimit`, `NoUnitLost`: one life of a counter admits at most its limit,
  and, while Redis answers, exactly what it has counted up to the limit.
- `OneOwesTtl`: while Redis answers, a counter without a TTL has exactly one
  request that will set it, and a counter with one has none.
- `WindowNotProlonged`: a TTL only runs down, as long as Redis has not lost its
  keys: neither refused clients nor late EXPIREs prolong a window.
- `CountersForgotten`: while Redis answers, every counter ends.
- `OutageReportEnds`: once Redis stays up and is used, the report of its outage
  ends for good, in whatever order replies and errors are handled.
- `LoggedOutRefused`: once a logout was answered, a request that begins with a
  token of the session its cookies were of does not get past a check Redis answered
  for `RevokedLife` from the admission of the logout on. (In the last second of
  that, when login, logout and the end of the key fall together, the key may already
  be gone while the token is still accepted; the property ends before it.) Of the
  token in the header of a logout it says nothing: that one is not revoked.
- `RotationsBounded`: in the first `RevokedLife` of its life a refresh token is
  exchanged at most once by each of the requests in flight together, never again
  later. (At most once altogether does not hold: `refresh` reads and writes the
  black list in two steps. After `RevokedLife` a token that lives longer may be
  exchanged again; with the defaults none does.)
- `AppliedOnce`: what a user asked for once, the server does at most once,
  although the interceptor sends a call again after a refresh.
- `SuccessorComes`: the browser holds a refresh token that was exchanged only
  while an answer that carries its successor is on the way, or was lost.
- `SpinnerEnds`: the dashboard does not wait for `initialize` for ever.
- `DeadSessionNoticed`: when no session is left for good, every tab leaves the
  dashboard again and again, and an untouched one stays out: the poll of the
  sidebar meets the 401.
- `OneConnection`: a mounted page has one socket or one timer waiting, never two.
- `NewestFirst`: what a page shows is in descending order without repetition,
  across reconnects.
- `KeepsPromise`: `LiveFeed` implements `FeedPromise`.
- `Reconnects`: a live page that lost its connection is connected again, has
  given up after its retries, or was left.
- `DeadQueueRemoved`: the queue of a browser that has left does not stay once
  an event is in it.
- `AnswerMatchesView`: what a list shows undimmed was asked for with the page and
  filters it shows as chosen.
- `RemovedIsGone`: once the list is quiet, a row whose removal was confirmed to
  the admin is not on it, in whatever view, looked at for the first time or again;
  views whose fetch was left alone by the invalidation are excepted, and may show
  the row for as long as their answer is fresh.
- `NothingIsAnAnswer`: a page that says there is nothing to show was answered so
  for the view it shows, or its last fetch failed; a view that was never asked for,
  or is still loading, is not taken for empty. (The reports page, which says "No
  attacks in this period" while it loads, is the exception.)
- `BadgeSettles`: the badge comes to the number of unresolved alerts.
- `ResultOfLastRun`: the dashboard's playground shows the verdict of the last run
  or none.
- `EnabledAfterConfirmation`: two-factor authentication is enabled only with a
  secret of which the user has shown a code. It is violated: see section 4.
- `ConfirmedUnlessStale`: it is violated in one way only, by a setup or an enable
  that commits by a row another handler has changed since it was read. A test of
  the row at these two commits would make the claim true; `disable_2fa` needs none.
- `SavedAsClicked`: a save that was answered with success has stored what the
  form showed at the click, except keys that another administrator, or the handler
  of an earlier save whose answer was lost, wrote later.

## 4. Where the repository says otherwise

Each run of kind `violation` checks one statement of the repository and shows a
behaviour of the code that breaks it:

| Run | Statement | What the code does |
|---|---|---|
| `claim_kill_chain` | `README.md:267`: three signatures are "automatically and persistently banned" | `record_block` raises before it can ban (`autoban_service.py:39`) |
| `claim_restore` | `auth-store.test.ts:77`: "initialize restores a valid stored session via getMe" | a page calls `initialize` twice; with an expired access token both exchange one refresh token, and the loser signs the user out |
| `claim_2fa` | `README.md:202`: "Enable 2FA (after code confirmation)" | `enable_2fa` and `setup_2fa` decide by a row read earlier; overlapping, they enable a secret nobody confirmed |

Other statements the models contradict, found by earlier runs or by the same
models, and kept here without a run of their own:

- `waf/runtime.py:7`: the mode is "kept in sync with the DB by
  RuntimeSyncService". A purge that fails during start-up keeps the loop from being
  started (`main.py:168`).
- `runtime_sync.py:21`: "Compiled custom rules loaded from the rules table". A
  custom rule with a renamed built-in rule's name makes every later seeding, and
  with it every load, fail.
- `redis_client.py:15`: fails open "so the WAF never becomes a self-DoS". A
  counter that missed its EXPIRE refuses its client after the outage for ever.
- `README.md:287`: "a critical `WAF_DEGRADED` alert is raised". The alert has no
  organization and is dropped (`alert_service.py:15`).
- `README.md:197`: refresh is to "Rotate tokens". A refresh in the second of
  the login answers the token it revoked.
- `frontend/src/services/playground.ts`: a shared link is built so that the public
  page never parses it when the body was percent-encoded, and `+` in its base64
  is read as a space; both playgrounds offer the source `uri`, which the schema
  refuses.
- `api/routes/auth.py:210`: "Logout and revoke tokens". A logout that was admitted by
  the token of its `Authorization` header revokes the tokens of its cookies; without
  cookies it revokes nothing, answers 200, and its token is accepted until it
  expires.
- `alerts/page.tsx:47` and the other `onSuccess`: a row that was removed may come
  back. Change the filter while the first fetch of a view is under way, remove a row,
  and change the filter back: the old answer has come in meanwhile as fresh, and
  is shown without a fetch for 30 s (`providers.tsx:25`).
- `top-attackers.tsx:51`, "No attackers detected": also after a fetch that failed,
  which most pages do not tell from nothing to show.
- `blocked-ips/page.tsx:83`: removing the last row of the last page leaves an
  empty list without a button to go back.

Seen while reading, without a model: `README.md:285` calls the limits
sliding-window, the code keeps fixed windows; `README.md:200` names
`/auth/password`, the route is `/auth/change-password`; `README.md:42` puts the
engine before CSRF; the frontend's services name `PUT /settings/{key}` and
`PUT /auth/me`, which have no route; a wrong two-factor code is a 401, after
which the interceptor refreshes, fails and reloads `/login` without its mfa
token; in React's strict mode the close event of the first mount's socket
starts a second reconnect (`useWebSocket.ts:46`); a save of the settings writes back keys
another administrator changed after they were loaded.

## 5. What is proved

For every value of the constants that satisfies the assumptions of the module
(in particular any number of organizations, addresses, tasks, requests, users
and keys, any limits, periods and lives, and any number of failures, outages and
restarts):

| Module | Theorem | States |
|---|---|---|
| `RuntimeSyncProofs` | `TypeCorrect`, `SteadyBlock`, `PurgesExpiredOnly`, `Copies` | `TypeOK`, `SteadyBlockEnforced`, `PurgeRemovesOnlyExpired`, `HoldsCopies` |
| | `NoStray`, `ModeOfDefaultOrg` | `NoStrayBlock`: an enforced address was blocked in the default organization's table at some moment since the process started; `ModeFromDefaultOrg`: the mode is the boot mode or one that organization stored (consequences of `HoldsCopies`, without a run) |
| `PipelineProofs` | `TypeCorrect`, `WithinLimit`, `NoneLost`, `OwedOnce`, `WindowKept`, `Implements` | `TypeOK`, `AtMostLimit`, `NoUnitLost`, `OneOwesTtl`, `WindowNotProlonged`, `ImplementsLimiter` |
| `SessionsProofs` | `TypeCorrect`, `LoggedOut`, `ExchangedOnce` | `TypeOK`, `LoggedOutRefused`, `RotationsBounded` |
| `BrowserSessionProofs` | `SessionTyped`, `AtMostOnce`, `Successor` | `SessionTypeOK`, `AppliedOnce`, `SuccessorComes` |
| `SecondFactorProofs` | `FactorTyped`, `ConfirmedIfFresh` | `FactorTypeOK`, `ConfirmedUnlessStale` |
| `LiveFeedProofs` | `FeedTyped`, `Single`, `Descending`, `Promised` | `FeedTypeOK`, `OneConnection`, `NewestFirst`, `KeepsPromise` |
| `AdminListsProofs` | `ListTyped`, `ShownAsChosen`, `StaysRemoved`, `EmptyIsTold` | `ListTypeOK`, `AnswerMatchesView`, `RemovedIsGone`, `NothingIsAnAnswer` |
| `PagesProofs` | `PlayTyped`, `VerdictOfLast` | `PlayTypeOK`, `ResultOfLastRun` |
| | `SettingsTyped`, `SavedClicked` | `SettingsTypeOK`, `SavedAsClicked` |

**Assumptions.** Those named in the modules: the default organization is one of
the organizations; the boot mode is a mode; limits lie below `MaxCount` (a
counter that is capped is still refused); periods are at least one tick; the
sets of requests are finite; the lists opened are pages, the table behind one is
finite and has room for a row; the calls of the two-factor card are bounded by a
number; the settings page has a key, a value and a place for a save. The lives of
tokens and of revocations are any numbers, in no order.

**RuntimeSync.** That what is enforced was stored is not inductive: a pass carries lists it read
long ago. `ListInv` says that the memory and the list each task carries are
values the table has had (or the empty set a failed pass applies), and that
without failures a task past its read carries such a value and memory holds one
as soon as the process serves. `SteadyBlock` follows: whatever old value is
published, it contains an address that was in all of them. `ModeInv` is the same for the mode.
`PurgeInv` is what the purge needs between its SELECT and its DELETE: a row a
task selected had expired by then, and a row that has expired stays expired, so
the rows it deletes later are still only expired ones.

For the refinement, `AllowsInv` and `CustomsInv` say of the allow list and the
custom rules what `ListInv` and `ModeInv` say of the other two. `MemorySteps`
is what every step of `RuntimeSync` has in common: each copy is left alone or
published by the one action that publishes it, and a failure changes the
tables, the clock and the memory in nothing. Then, for each of the four, a step that
leaves the copy alone is a `Change` (or a `Fail`), its publication a `Take`
because the carried value is in the history, or a `Lose` of an empty
list after a failure, and `Restart` is a `Reboot`.

**Pipeline.** `AtMostLimit` is not inductive: a request that has been counted
within the limit has not been admitted yet. `BudgetInv` bounds admitted plus
pending requests by the counter and by the limit. For the window,
`CounterInv` and `CreatorInv` say that while Redis keeps its keys a counter has
at most one request that read 1 and has not set its TTL, and that this counter
has none; so EXPIRE never meets a running TTL. In the refinement an
admission is `Take`, which `BudgetInv` enables; an INCR that creates a counter is
`Open`, an EXPIRE that is executed `Start`, which by `CreatorInv` only meets a
counter without a TTL as long as no keys were lost; the clock is `Pass`, a loss of keys
`Lose`, and every other step a stutter. `NoUnitLost` and `OneOwesTtl` speak of runs
without a fault or a restart; `CalmInv` (without a fault Redis is up and has its
keys) and `CalmSteps` reduce these to the steps in which a call is answered. Then
`NoUnitLost` is inductive: INCR takes a unit exactly when the counter was below its
limit. `OwedInv` adds to `CreatorInv` that a counter without a TTL has a request that
owes it one, and that the clock cannot end such a counter.

**Sessions.** `RevokedInv`: while Redis keeps its keys, both tokens of a session
that is `ended` until some second are dead until then, because SETEX gives a key
the whole `RevokedLife` and came after the admission from which `ended` counts;
and it says what each request that Redis answered so far knows: past the check, one
that began with a token that was ended has outlasted that, and a logout between
its two writes has killed the first token. It needs no relation between the lives.
`RotationInv` counts: exchanges so far plus requests that have passed the check
of the token number at most the requests; once a token was exchanged it is
dead until it is `RevokedLife` old, and nobody passes the check meanwhile.

**BrowserSession.** `SoundCalls` is what makes `AppliedOnce` inductive: a call
that was applied has been answered, with anything but a 401, and is not sent
again; only a refresh holds a cookie. `CarriedInv` follows the one answer that
carries the successor through every step that could drop it: the step that
leaves its document turns the token over, the step that takes another session
into the jar replaces it.

**LiveFeed.** `KeepsPromise` needs to know everything that is in flight. `Good` says
it of each socket: what the page took, then the wire, then the queue is one
ascending chain (`Chain`) below the number of events broadcast, and an event missing
from it has `QueueSize` newer ones (`Covered`); a connection that is lost gives
up the second half, and nobody listens to it. A lemma each carries the chain through
a broadcast, a send, a message and a lost wire. `ListInv` keeps the list of the page at
or below what its socket took, which makes the next message the newest; `MineInv`
says that a page has its socket, or its timer, or neither, which makes `OneConnection`
inductive. In the refinement a broadcast is `Publish`, the registration of the page's
socket `Subscribe`, a message to the page `Deliver`, whatever ends its connection
`Unsubscribe`, and every other step a stutter.

**AdminLists.** `QueryInv`: an entry of the query cache holds, and awaits, nothing
but what was asked for with its key, what is fresh is there, and one that failed
awaits nothing; that gives `AnswerMatchesView`. `RemovedIsGone` speaks of a quiet
list, and needs what is under way: `GoneInv` says that a row whose removal a write
was answered for is out of the table, where nothing brings it back, and `CleanInv`
that in no view, looked at or not, the data that count as fresh, or the answer that
is coming, have a row of its `gone`; and that the view looked at, once it is idle,
has fresh data or has failed. `InvalidatedIs` is the step that matters: what is
confirmed as removed is entered in `gone` of the keys whose data become stale and
whose fetch, if there is one, is dropped; the others are left alone in both.
`NothingIsAnAnswer` follows from the same `CleanInv`: idle and not failed means
answered.

**SecondFactor.** `FactorTypeOK` needs a count (`CountInv`): each call for a
secret that no handler has ended may still make one, so secrets made and such
calls together are no more than the calls sent; and it needs to know that only a
call of this card keeps it busy (`CardInv`). `ConfirmedUnlessStale` is inductive by
itself (`FreshSteps`): a setup by the row as it is finds the account off and leaves
it off, an enable by the row as it is enables the secret whose code it was
shown, and a disable takes the secret away whatever it read.

**Playgrounds.** `DashboardInv`: on the dashboard at most one run is under way and
it is the last one started, so the answer that comes is its own. The public
page has no such invariant: Enter starts a second run while one is out.

**SettingsPage.** `SavedAsClicked` speaks of a finished save. `AwaitedInv` says that
the save the card waits for has a handler at work with the values of the click,
`WrittenInv` that the keys it has written so far, except those in `over`, hold them.
A handler nobody waits for adds what it writes to `over`.

**Only model-checked.** The liveness properties (`ListsConverge`,
`ModeConverges`, `RulesConverge`, `CountersForgotten`, `OutageReportEnds`,
`SpinnerEnds`, `DeadSessionNoticed`, `Reconnects`, `DeadQueueRemoved`,
`BadgeSettles`): temporal proofs under fairness, and ENABLED, are out of the
prover's reach. Every safety and action property of a run is a theorem.

## 6. Plan

Done: the runtime synchronization, the pipeline with its limits, the sessions,
the two-factor card and its handlers, the session of a browser, the live traffic
from the engine to the page, the lists, playgrounds and settings of the console.
Left, in this order:

1. `BrowserSession` with the server of `Sessions` in place of the four states of
   its jar, so that the findings of both meet in one model.
2. The brute-force guard on `SafeRedis`: how many attempts pass in a window.
3. Scoring as operators over small findings, checked against a reference
   definition: monotone, capped.

## 7. Not modelled, and why

- Regular expressions of the detectors, formatting, templates, dashboards,
  reports and statistics: data and queries without control. The landing page,
  animations and tables are drawn from state the models hold, or from none.
- The brute-force guard: one more counter over INCR and EXPIRE; what `Pipeline`
  shows of the counters of the limits holds for it alike.
- Scoring, decoding of payloads and the anomaly average: arithmetic whose only
  effect on another part is the verdict, which `Pipeline` leaves open.
- Organizations and the tests of roles: reads and writes of single rows.
- Migrations, deployment, metrics, logging, security headers: they run before,
  around or beside the protocol of the service and share no state with it.
- Several processes of the service: the repository runs one (`render.yaml`);
  the copies in memory are per process, and each would be an instance of
  `RuntimeSync` over the same tables.
- Webhooks: `_load_settings` calls `get_all` without its organization argument,
  the exception is swallowed, and delivery is always disabled.
- What becomes of the query cache when a page is left: unused entries are dropped
  after minutes, and a page that is opened again may begin with them. The query of
  an open dossier and the downloads of reports.
- The ping of the health route, which reports an outage as any other call does.
- React's strict mode (a page mounted twice), which only development builds have.

## 8. Running

```
tlc -workers 2 -config MCSyncSafety.cfg MCRuntimeSync
tlapm RuntimeSyncProofs.tla
```

and likewise for the other configurations:

| Module | Configurations |
|---|---|
| `MCRuntimeSync` | `MCSyncSafety`, `MCSyncLive` |
| `MCPipeRaceWays` | `MCPipeSafety` |
| `MCPipeline` | `MCPipeLive`, `MCKillChainClaim` |
| `MCSessions` | `MCSessions` |
| `MCBrowser` | `MCBrowser`, `MCBrowserLive`, `MCRestoreClaim` |
| `MCFeed` | `MCFeed` |
| `MCConsole` | `MCConsole`, `MCFactorClaim` |

and for every module whose name ends in `Proofs`. The longest runs take two to
three minutes.
